---------------------------- MODULE Spec2Model ----------------------------
(***************************************************************************)
(* The /api/chat request pipeline of the Jeff backend, in its three        *)
(* revisions:                                                              *)
(*   src/server.js        Gemini, tool-call loop, no cache                 *)
(*   src/unnamed/part_000 Gemini, tool-call loop, response cache           *)
(*   src/unnamed/part_001 GPT-4o-mini, one model call, response cache,     *)
(*                        career-analysis cache bypass                     *)
(*                                                                         *)
(* JavaScript strings whose characters matter (messages, history content)  *)
(* are sequences of one-character strings.  Other JavaScript values are    *)
(* records with a type tag "t", all of one shape so that any two can be    *)
(* compared.  A request handler runs without interruption between two      *)
(* awaits, so one action is the code from one await to the next.           *)
(***************************************************************************)
EXTENDS Integers, Sequences, FiniteSets, TLC

VARIABLES
    build,       \* which revision of the server is running
    now,         \* Date.now(), in seconds
    cacheData,   \* responseCache: key -> [v: value, t: expiry time]
    cacheStats,  \* cacheStats: [hits, misses, saves]
    pc,          \* per request: "idle", "awaitModel", "awaitTools", "done"
    inp,         \* per request: req.body as received
    loc,         \* per request: the handler's local variables
    res,         \* per request: the response sent ([status, body]), status 0 = none yet
    obs,         \* per request: what the request did (history variable, not program state)
    hist,        \* input of validateConversationHistory   (SpecHistory)
    san,         \* input and output of one call of sanitizeInput  (SpecSanitize)
    histOut,     \* output of validateConversationHistory  (SpecHistory)
    keyIn,       \* two request bodies whose cache keys are derived  (SpecKey)
    keyOut,      \* what the handler derives from each of them  (SpecKey)
    statsReply,  \* the last response of GET /api/cache-stats
    limiter      \* chatLimiter: its store for one client, and its decisions  (SpecLimiter)

vars == <<build, now, cacheData, cacheStats, pc, inp, loc, res, obs, hist, san, histOut, keyIn, keyOut, statsReply, limiter>>

-----------------------------------------------------------------------------
(* Bounds of the model and constants of the program *)

\* the clock stops at MaxTime
MaxTime == 172800
\* the clock advances in steps of TickStep seconds
TickStep == 86400
\* longest raw history array drawn for validateConversationHistory
MaxRawHistory == 12
\* longest history drawn for generateCacheKey
MaxKeyHistory == 4
\* requests one client sends to the rate limiter, the seconds between two moments
\* it sends them at, and the last such moment
MaxLimiterRequests == 22
LimiterTickStep == 25
MaxLimiterTime == 75

\* const maxFunctionCalls = 3
maxFunctionCalls == 3
\* chatLimiter: windowMs: 60 * 1000, max: 20
windowMs == 60000
limiterMax == 20
\* NodeCache stdTTL: 86400 seconds
stdTTL == 86400
\* history.slice(-10)
HistoryKeep == 10
\* conversationHistory.slice(-3) in generateCacheKey
KeyContext == 3
\* validatedHistory.slice(-6) in the GPT revision
PromptContext == 6
\* .substring(0, 1000) in sanitizeInput
MaxInputLength == 1000

\* the requests that may be in flight together
Req == {"r1", "r2"}

Builds == {"server.js", "part_000", "part_001"}
HasCache(b) == b \in {"part_000", "part_001"}
HasTools(b) == b \in {"server.js", "part_000"}

Min(a, b) == IF a < b THEN a ELSE b
Max(a, b) == IF a > b THEN a ELSE b

-----------------------------------------------------------------------------
(* Characters and strings *)

UpperLetters == <<"A","B","C","D","E","F","G","H","I","J","K","L","M",
                  "N","O","P","Q","R","S","T","U","V","W","X","Y","Z">>
LowerLetters == <<"a","b","c","d","e","f","g","h","i","j","k","l","m",
                  "n","o","p","q","r","s","t","u","v","w","x","y","z">>
Digits == {"0","1","2","3","4","5","6","7","8","9"}

\* the /i flag: compare letters without case
ToLower(c) ==
    IF \E i \in 1..26 : UpperLetters[i] = c
    THEN LowerLetters[CHOOSE i \in 1..26 : UpperLetters[i] = c]
    ELSE c

\* \w
WordChars ==
    {UpperLetters[i] : i \in 1..26} \cup {LowerLetters[i] : i \in 1..26} \cup Digits \cup {"_"}
IsWordChar(c) == c \in WordChars

\* \s, and what trim() removes
SpaceChars == {" ", "\n", "\t", "\r"}
IsSpace(c) == c \in SpaceChars

\* s without the characters at the positions in covered
RemovePositions(s, covered) ==
    LET idx  == [i \in 1..Len(s) |-> i]
        kept == SelectSeq(idx, LAMBDA p : p \notin covered)
    IN  [j \in 1..Len(kept) |-> s[kept[j]]]

\* whether the literal lit (lower case) occurs in s at position i, ignoring case
MatchesAtNoCase(s, lit, i) ==
    /\ i >= 1
    /\ i + Len(lit) - 1 <= Len(s)
    /\ \A k \in 1..Len(lit) : ToLower(s[i + k - 1]) = lit[k]

\* whether the literal lit occurs in s at position i
MatchesAt(s, lit, i) ==
    /\ i >= 1
    /\ i + Len(lit) - 1 <= Len(s)
    /\ \A k \in 1..Len(lit) : s[i + k - 1] = lit[k]

\* String.prototype.includes
Includes(s, lit) == \E i \in 1..Len(s) : MatchesAt(s, lit, i)

strJavascript == <<"j","a","v","a","s","c","r","i","p","t",":">>
strUser == <<"u","s","e","r">>
strAssistant == <<"a","s","s","i","s","t","a","n","t">>
strSystem == <<"s","y","s","t","e","m">>
strCareerAnalysis ==
    <<"C","A","R","E","E","R"," ","A","N","A","L","Y","S","I","S"," ",
      "R","E","Q","U","E","S","T">>
strCareerQuiz ==
    <<"C","a","r","e","e","r"," ","P","a","t","h"," ","E","x","p","l","o","r","e","r",
      " ","q","u","i","z">>


-----------------------------------------------------------------------------
(* JavaScript values *)

\* a string, a non-string primitive or undefined, as req.body.message or msg.content
Str(s) == [t |-> "string", s |-> s]
Undefined == [t |-> "undefined", s |-> <<>>]
Number5 == [t |-> "number", s |-> <<>>]

\* an element of the conversationHistory array: an object with role and content,
\* or something else (null, a string)
Msg(role, content) == [t |-> "object", role |-> role, content |-> content]
NullEntry == [t |-> "null", role |-> Undefined, content |-> Undefined]

\* req.body.conversationHistory: an array or something else
Arr(a) == [t |-> "array", a |-> a]
NotAnArray == [t |-> "string", a |-> <<>>]

-----------------------------------------------------------------------------
(* sanitizeInput *)

\* the last index of the run of characters of the class chars that starts at from
\* (from - 1 when s[from] is not of the class)
RunEnd(s, from, chars) ==
    CHOOSE j \in (from - 1)..Len(s) :
        /\ \A k \in from..j : s[k] \in chars
        /\ j = Len(s) \/ s[j + 1] \notin chars

\* .replace(/</g, ''): the closing bracket is left in
RemoveOpeningBrackets(s) == SelectSeq(s, LAMBDA c : c # "<")

\* .replace(/[<>]/g, '')
RemoveAngleBrackets(s) == SelectSeq(s, LAMBDA c : c \notin {"<", ">"})

\* .replace(/javascript:/gi, ''): occurrences cannot overlap
RemoveJavascript(s) ==
    LET starts  == {i \in 1..Len(s) : MatchesAtNoCase(s, strJavascript, i)}
        covered == UNION {i..(i + Len(strJavascript) - 1) : i \in starts}
    IN  RemovePositions(s, covered)

\* the index where a match of /on\w+\s*=/i starting at i ends, 0 when there is none:
\* "on", the whole run of word characters (at least one), the whole run of
\* white space, "="
EventHandlerEnd(s, i) ==
    IF ~MatchesAtNoCase(s, <<"o", "n">>, i) THEN 0
    ELSE LET w == RunEnd(s, i + 2, WordChars)
             k == RunEnd(s, w + 1, SpaceChars)
         IN  IF w >= i + 2 /\ k + 1 <= Len(s) /\ s[k + 1] = "=" THEN k + 1 ELSE 0

\* .replace(/on\w+\s*=/gi, ''): a match that starts inside another match ends with
\* it, so the characters removed are those of all the matches
RemoveEventHandlers(s) ==
    LET starts  == {i \in 1..Len(s) : EventHandlerEnd(s, i) > 0}
        covered == UNION {i..EventHandlerEnd(s, i) : i \in starts}
    IN  RemovePositions(s, covered)

\* .trim()
Trim(s) ==
    LET solid == {i \in 1..Len(s) : ~IsSpace(s[i])}
    IN  IF solid = {} THEN <<>>
        ELSE SubSeq(s, CHOOSE i \in solid : \A j \in solid : i <= j,
                       CHOOSE i \in solid : \A j \in solid : i >= j)

\* no truncation
SubstringAll(s, n) == s

\* .substring(0, n)
Substring0(s, n) == SubSeq(s, 1, Min(Len(s), n))

\* sanitizeInput without .substring(0, 1000)
sanitizeInputUncapped(input) ==
    IF input.t # "string" THEN <<>>
    ELSE Trim(RemoveEventHandlers(RemoveJavascript(RemoveAngleBrackets(input.s))))

\* sanitizeInput with .trim() as the first step of the chain
sanitizeInputTrimFirst(input) ==
    IF input.t # "string" THEN <<>>
    ELSE Substring0(RemoveEventHandlers(RemoveJavascript(
             RemoveAngleBrackets(Trim(input.s)))), MaxInputLength)

\* sanitizeInput(input): a string of characters
sanitizeInput(input) ==
    IF input.t # "string" THEN <<>>
    ELSE Substring0(Trim(RemoveEventHandlers(RemoveJavascript(
             RemoveAngleBrackets(input.s)))), MaxInputLength)

-----------------------------------------------------------------------------
(* validateConversationHistory *)

\* no .slice at all
SliceNothing(a, n) == a

\* .slice(-n)
SliceLast(a, n) == SubSeq(a, Max(1, Len(a) - n + 1), Len(a))

\* the filter callback without the test of the role value
IsValidEntryAnyRole(msg) ==
    /\ msg.t = "object"
    /\ msg.role.t = "string"
    /\ msg.content.t = "string"

\* the filter callback
IsValidEntry(msg) ==
    /\ msg.t = "object"
    /\ msg.role.t = "string"
    /\ msg.content.t = "string"
    /\ msg.role.s = strUser \/ msg.role.s = strAssistant

\* the map callback
CleanEntry(msg) == [role |-> msg.role.s, content |-> sanitizeInput(msg.content)]

\* .slice(0, 10) in place of .slice(-10)
HistoryWindowFirst(a) == SubSeq(a, 1, Min(Len(a), HistoryKeep))

HistoryWindow(a) == SliceLast(a, HistoryKeep)

\* .filter before .slice(-10)
validateFilterFirst(history) ==
    IF history.t # "array" THEN <<>>
    ELSE LET kept == HistoryWindow(SelectSeq(history.a, IsValidEntry))
         IN  [i \in 1..Len(kept) |-> CleanEntry(kept[i])]

validateConversationHistory(history) ==
    IF history.t # "array" THEN <<>>
    ELSE LET kept == SelectSeq(HistoryWindow(history.a), IsValidEntry)
         IN  [i \in 1..Len(kept) |-> CleanEntry(kept[i])]

-----------------------------------------------------------------------------
(* generateCacheKey *)

RECURSIVE JoinBar(_)
\* .join('|')
JoinBar(parts) ==
    IF Len(parts) = 0 THEN <<>>
    ELSE IF Len(parts) = 1 THEN parts[1]
    ELSE parts[1] \o <<"|">> \o JoinBar(Tail(parts))

\* `${msg.role}:${msg.content}`
RoleColonContent(msg) == msg.role \o <<":">> \o msg.content

\* the whole history in place of its last three entries
KeyWindowAll(h) == h

KeyWindow(h) == SliceLast(h, KeyContext)

\* crypto.createHash('sha256').update(fullContext).digest('hex'), taken to be
\* free of collisions: the digest stands for exactly one fullContext
sha256hex(s) == <<"sha256">> \o s

generateCacheKey(message, conversationHistory) ==
    LET w == KeyWindow(conversationHistory)
        contextString == JoinBar([i \in 1..Len(w) |-> RoleColonContent(w[i])])
        fullContext == contextString \o <<"|">> \o strUser \o <<":">> \o message
    IN  sha256hex(fullContext)

-----------------------------------------------------------------------------
(* Response values: what JSON.parse yields, what is cached, what res.json sends *)

\* a property of an object: absent, a string (s is its text) or a number
NoField == [t |-> "undefined", s |-> ""]
StrField(s) == [t |-> "string", s |-> s]
NumField(s) == [t |-> "number", s |-> s]

\* link values: the property is absent, null, a {url, text, name} object, or a string
LinkAbsent == "undefined"
LinkNull == "null"
LinkObject == "{url,text,name}"
LinkString == "https://www.navigrad.ca/western"

\* a JavaScript value: an object with error, message and link properties, an array,
\* or a primitive (prim is its literal)
Object(error, message, link) ==
    [t |-> "object", error |-> error, message |-> message, link |-> link, prim |-> ""]
Primitive(t, lit) ==
    [t |-> t, error |-> NoField, message |-> NoField, link |-> LinkAbsent, prim |-> lit]
JsUndefined == Primitive("undefined", "undefined")
JsNull == Primitive("null", "null")
JsArray == Primitive("array", "[]")

\* if (value): JavaScript truthiness
Truthy(v) ==
    CASE v.t \in {"object", "array"} -> TRUE
      [] v.t \in {"undefined", "null"} -> FALSE
      [] v.t = "number" -> v.prim # "0"
      [] v.t = "string" -> v.prim # ""
      [] v.t = "boolean" -> v.prim = "true"

\* !field for a property value
FieldTruthy(f) ==
    CASE f.t = "undefined" -> FALSE
      [] f.t = "string" -> f.s # ""
      [] f.t = "number" -> f.s # "0"

\* res.json(value): what JSON.stringify keeps (a property set on an array is dropped)
ToJSON(v) == IF v.t = "array" THEN JsArray ELSE v

\* {message: string, link: {url, text, name} | null}
IsChatResponse(body) ==
    /\ body.t = "object"
    /\ body.message.t = "string"
    /\ body.link \in {LinkNull, LinkObject}

\* {error: string, message: string, link: null}
IsErrorBody(body) ==
    /\ body.t = "object"
    /\ body.error.t = "string"
    /\ body.message.t = "string"
    /\ body.link = LinkNull

-----------------------------------------------------------------------------
(* Text the model returns *)

\* (written without the quotation marks and with the code fence as ~~~)
txtLinked == "{message: Western is great, link: {url: u, text: t, name: n}}"
txtPlainObject == "{message: Tuition varies, link: null}"
txtFenced == "~~~json {message: Tuition varies, link: null} ~~~"
txtNoMessage == "{link: null}"
txtEmptyMessage == "{message: (empty string), link: null}"
txtNumberMessage == "{message: 5, link: null}"
txtLinkString == "{message: See Western, link: https://www.navigrad.ca/western}"
txtNull == "null"
txtZero == "0"
txtFive == "5"
txtArray == "[]"
txtProse == "Western is in London, Ontario."
txtEmpty == ""

ModelTexts ==
    {txtLinked, txtPlainObject, txtFenced, txtNoMessage, txtEmptyMessage, txtNumberMessage,
     txtLinkString, txtNull, txtZero, txtFive, txtArray, txtProse, txtEmpty}

\* text.replace(/~~~json\n?/g, '').replace(/~~~\n?/g, '').trim()
StripFences(text) == IF text = txtFenced THEN txtPlainObject ELSE text

\* whether JSON.parse(text) throws a SyntaxError
JSONparseThrows(text) == text \in {txtProse, txtEmpty}

\* JSON.parse(text), for text it accepts
JSONparse(text) ==
    CASE text = txtLinked -> Object(NoField, StrField("Western is great"), LinkObject)
      [] text = txtPlainObject -> Object(NoField, StrField("Tuition varies"), LinkNull)
      [] text = txtNoMessage -> Object(NoField, NoField, LinkNull)
      [] text = txtEmptyMessage -> Object(NoField, StrField(""), LinkNull)
      [] text = txtNumberMessage -> Object(NoField, NumField("5"), LinkNull)
      [] text = txtLinkString -> Object(NoField, StrField("See Western"), LinkString)
      [] text = txtNull -> JsNull
      [] text = txtZero -> Primitive("number", "0")
      [] text = txtFive -> Primitive("number", "5")
      [] text = txtArray -> JsArray

\* the catch block building {message: text} without the link
ParseOrWrapNoLink(text) ==
    LET stripped == StripFences(text)
    IN  IF JSONparseThrows(stripped)
        THEN Object(NoField, StrField(stripped), LinkAbsent)
        ELSE JSONparse(stripped)

\* try { jsonResponse = JSON.parse(text) } catch (e) { jsonResponse = {message: text, link: null} }
ParseOrWrap(text) ==
    LET stripped == StripFences(text)
    IN  IF JSONparseThrows(stripped)
        THEN Object(NoField, StrField(stripped), LinkNull)
        ELSE JSONparse(stripped)

msgTrouble == "I am having trouble processing your request. Please try again!"
msgFormatting == "I have gathered some information for you, but I am having trouble formatting it."

\* the fallback left out: jsonResponse stays undefined
NoFallbackResponse == Primitive("undefined", "undefined")

\* if (!jsonResponse) jsonResponse = {message: <msgTrouble>, link: null}
FallbackResponse == Object(NoField, StrField(msgTrouble), LinkNull)

\* Gemini revisions, after the loop
OrFallback(jsonResponse) == IF Truthy(jsonResponse) THEN jsonResponse ELSE FallbackResponse

\* GPT revision: jsonResponse.message throws a TypeError when jsonResponse is null
MessageAccessThrows(jsonResponse) == jsonResponse.t \in {"null", "undefined"}

\* GPT revision: if (!jsonResponse.message) jsonResponse.message = <msgFormatting>;
\* the assignment does nothing on a primitive (the file is not in strict mode)
EnsureMessage(jsonResponse) ==
    IF FieldTruthy(jsonResponse.message) THEN jsonResponse
    ELSE IF jsonResponse.t \in {"object", "array"}
         THEN [jsonResponse EXCEPT !.message = StrField(msgFormatting)]
         ELSE jsonResponse

-----------------------------------------------------------------------------
(* Error responses *)

ErrorBody(error, message, link) == Object(StrField(error), message, link)

\* res.status(400).json({ error: 'Valid message is required' })
RejectMissing == [status |-> 400, body |-> ErrorBody("Valid message is required", NoField, LinkAbsent)]
\* res.status(400).json({ error: 'Message cannot be empty' })
RejectEmpty == [status |-> 400, body |-> ErrorBody("Message cannot be empty", NoField, LinkAbsent)]

\* what a rejected model call carries: '429' in its message, code 'insufficient_quota',
\* both (the message of a quota error that starts with its HTTP status 429),
\* status 401, or none of these
ModelErrors == {"429", "insufficient_quota", "429 insufficient_quota", "401", "ECONNRESET"}

\* error.message && error.message.includes('429')
MessageHas429(error) == error \in {"429", "429 insufficient_quota"}

\* the test of error.code left out
CodeNeverInsufficientQuota(error) == FALSE

\* error.code === 'insufficient_quota'
CodeInsufficientQuota(error) == error \in {"insufficient_quota", "429 insufficient_quota"}

\* error.status === 401
Status401(error) == error = "401"
\* the TypeError of reading a property of undefined or null
TypeError == "TypeError"

\* a catch block that answers 200
CatchResponseOk(b, error) ==
    [status |-> 200,
     body |-> ErrorBody("Failed to generate response", StrField("Sorry, I encountered an error"), LinkNull)]

\* the catch block of the handler
CatchResponse(b, error) ==
    IF MessageHas429(error)
    THEN [status |-> 429,
          body |-> ErrorBody("API rate limit", StrField("I am getting too many requests right now!"), LinkNull)]
    ELSE IF b = "part_001" /\ CodeInsufficientQuota(error)
    THEN [status |-> 503,
          body |-> ErrorBody("Service unavailable", StrField("Jeff is temporarily unavailable"), LinkNull)]
    ELSE IF b = "part_001" /\ Status401(error)
    THEN [status |-> 500,
          body |-> ErrorBody("Configuration error", StrField("Jeff is having configuration issues"), LinkNull)]
    ELSE [status |-> 500,
          body |-> ErrorBody("Failed to generate response", StrField("Sorry, I encountered an error"), LinkNull)]

NoResponse == [status |-> 0, body |-> JsUndefined]
Is2xx(status) == status >= 200 /\ status <= 299

-----------------------------------------------------------------------------
(* Tool invocations *)

urlWestern == "https://www.navigrad.ca/western"

\* a function call the model requests: args is "url" ({url: ...}), "empty" ({}),
\* or "absent" (the call carries no args object)
Call(name, args) == [name |-> name, args |-> args]
callFetch == Call("fetchWebPage", "url")
callFetchEmptyArgs == Call("fetchWebPage", "empty")
callFetchNoArgs == Call("fetchWebPage", "absent")
callUnknown == Call("lookupGrades", "url")

\* the lists of function calls the model is taken to request in one turn
ToolCallLists ==
    { <<callFetch>>, <<callUnknown, callFetchEmptyArgs>>, <<callFetchNoArgs, callFetch>> }

\* call.args.url throws a TypeError when call.args is undefined
DispatchThrows(call) == call.name = "fetchWebPage" /\ call.args = "absent"

\* the calls of a turn for which fetchWebPage is entered
IsFetch(call) == call.name = "fetchWebPage" /\ call.args # "absent"

\* axios.get(undefined) cannot succeed
CanSucceed(call) == call.args = "url"

\* an element of functionResponses: {name, response: {success, content | error, url}},
\* or null for a call that is not fetchWebPage
ToolResult(call, ok) ==
    IF call.name = "fetchWebPage"
    THEN [isNull |-> FALSE, name |-> call.name, success |-> ok,
          url |-> IF call.args = "url" THEN urlWestern ELSE "undefined"]
    ELSE [isNull |-> TRUE, name |-> "", success |-> FALSE, url |-> ""]

\* a turn of calls of which none ever settles (a fetch with no timeout)
OutcomesNever(calls) == {}

\* the outcomes a turn of calls can have: for each call, whether its fetch succeeded
Outcomes(calls) ==
    {o \in [1..Len(calls) -> BOOLEAN] :
        \A i \in 1..Len(calls) :
            o[i] => IsFetch(calls[i]) /\ CanSucceed(calls[i])}

\* await Promise.all(functionCalls.map(...))
functionResponses(calls, o) == [i \in 1..Len(calls) |-> ToolResult(calls[i], o[i])]

-----------------------------------------------------------------------------
(* The prompt *)

\* a piece of the prompt: the system prompt, a history line, the current message,
\* or the FUNCTION RESULTS block of one turn
Segment(kind, role, text, results) ==
    [kind |-> kind, role |-> role, text |-> text, results |-> results]

\* Gemini revisions: const role = msg.role === 'user' ? 'User' : 'Jeff'
GeminiLabel(role) == IF role = strUser THEN "User" ELSE "Jeff"
\* GPT revision: role: msg.role === 'assistant' ? 'assistant' : 'user'
GptLabel(role) == IF role = strAssistant THEN "assistant" ELSE "user"

\* the history the prompt shows: all of it (Gemini), the last six entries (GPT)
PromptWindow(b, h) == IF b = "part_001" THEN SliceLast(h, PromptContext) ELSE h

\* the current message put before the history
BuildPromptMessageFirst(b, validatedHistory, sanitizedMessage) ==
    LET w == PromptWindow(b, validatedHistory)
    IN  <<Segment("system", "", <<>>, <<>>), Segment("current", "", sanitizedMessage, <<>>)>>
        \o [i \in 1..Len(w) |->
              Segment("history",
                      IF b = "part_001" THEN GptLabel(w[i].role) ELSE GeminiLabel(w[i].role),
                      w[i].content, <<>>)]

\* the prompt of the first model call
BuildPrompt(b, validatedHistory, sanitizedMessage) ==
    LET w == PromptWindow(b, validatedHistory)
    IN  <<Segment("system", "", <<>>, <<>>)>>
        \o [i \in 1..Len(w) |->
              Segment("history",
                      IF b = "part_001" THEN GptLabel(w[i].role) ELSE GeminiLabel(w[i].role),
                      w[i].content, <<>>)]
        \o <<Segment("current", "", sanitizedMessage, <<>>)>>

\* the results left out of the prompt
AppendNothing(prompt, results) == prompt

\* prompt = in place of prompt +=
ReplaceByResults(prompt, results) == <<Segment("results", "", <<>>, results)>>

\* prompt += `\n\nFUNCTION RESULTS:\n${JSON.stringify(functionResponses, null, 2)}...`
AppendResults(prompt, results) == Append(prompt, Segment("results", "", <<>>, results))

-----------------------------------------------------------------------------
(* The response cache (node-cache, useClones: false) *)

\* an entry that never expires
LiveForever(data, key, time) == key \in DOMAIN data

\* whether the entry under key exists and has not expired
Live(data, key, time) == key \in DOMAIN data /\ data[key].t >= time

\* responseCache.get(key): the value, or undefined
CacheGet(data, key, time) == IF Live(data, key, time) THEN data[key].v ELSE JsUndefined

\* get deletes the entry it finds expired
CacheAfterGet(data, key, time) ==
    IF key \in DOMAIN data /\ ~Live(data, key, time)
    THEN [k \in DOMAIN data \ {key} |-> data[k]]
    ELSE data

\* a set that keeps the entry the key already has
CacheSetIfAbsent(data, key, value, time) ==
    IF key \in DOMAIN data THEN data
    ELSE [k \in DOMAIN data \cup {key} |->
             IF k = key THEN [v |-> value, t |-> time + stdTTL] ELSE data[k]]

\* responseCache.set(key, value)
CacheSet(data, key, value, time) ==
    [k \in DOMAIN data \cup {key} |->
        IF k = key THEN [v |-> value, t |-> time + stdTTL] ELSE data[k]]

\* the hourly check deletes the expired entries
CacheSweep(data, time) ==
    [k \in {x \in DOMAIN data : data[x].t >= time} |-> data[k]]

\* a probe whose result is never used
IsNeverHit(cachedResponse) == FALSE

\* if (cachedResponse)
IsHit(cachedResponse) == Truthy(cachedResponse)

\* const isCareerAnalysis = ... (GPT revision only)
IsCareerAnalysis(b, sanitizedMessage) ==
    /\ b = "part_001"
    /\ \/ Includes(sanitizedMessage, strCareerAnalysis)
       \/ Includes(sanitizedMessage, strCareerQuiz)

\* the write made without looking at isCareerAnalysis
WritesCacheAlways(b, isCareerAnalysis) == HasCache(b)

\* whether the handler calls responseCache.get / responseCache.set
ReadsCache(b, isCareerAnalysis) == HasCache(b) /\ ~isCareerAnalysis
WritesCache(b, isCareerAnalysis) == HasCache(b) /\ ~isCareerAnalysis

-----------------------------------------------------------------------------
(* The /api/chat handler *)

\* the handler's local variables
Locals(sanitizedMessage, validatedHistory, isCareerAnalysis, cacheKey, prompt) ==
    [sanitizedMessage |-> sanitizedMessage, validatedHistory |-> validatedHistory,
     isCareerAnalysis |-> isCareerAnalysis, cacheKey |-> cacheKey, prompt |-> prompt,
     functionCallAttempts |-> 0, functionCalls |-> <<>>]
NoLocals == Locals(<<>>, <<>>, FALSE, <<>>, <<>>)

\* the locals at the first await (or at an early return) of a request
LocalsOf(b, message, conversationHistory) ==
    LET sanitizedMessage == sanitizeInput(message)
        validatedHistory == validateConversationHistory(conversationHistory)
    IN  Locals(sanitizedMessage, validatedHistory,
               IsCareerAnalysis(b, sanitizedMessage),
               IF HasCache(b) THEN generateCacheKey(sanitizedMessage, validatedHistory)
               ELSE <<>>,
               BuildPrompt(b, validatedHistory, sanitizedMessage))

\* what a request has done so far
NoObs ==
    [modelCalls |-> 0, fetchCalls |-> 0, cacheRead |-> FALSE, cacheWrite |-> FALSE,
     outcome |-> "", fetchFailed |-> FALSE, storedAt |-> 0, steps |-> <<>>]

\* n copies of the character c
Pad(n, c) == [i \in 1..n |-> c]

\* messages around the cap of sanitizeInput: 999 x, then the characters of tail;
\* with lead, a character sanitizeInput removes in front
LongMessage(lead, tail) == Str(lead \o Pad(MaxInputLength - 1, "x") \o tail)

\* the messages and histories requests are drawn from
strHi == <<"h","i">>
strQ == <<"f","e","e","s","?">>
Messages ==
    { Undefined, Number5, Str(<<>>), Str(<<"<", ">", " ">>), Str(strHi), Str(<<"<">> \o strHi),
      Str(strCareerAnalysis), LongMessage(<<>>, <<"a", "b">>) }
\* seven turns, user and assistant in alternation, each with its own content
SevenTurns ==
    Arr([i \in 1..7 |-> Msg(Str(IF i % 2 = 1 THEN strUser ELSE strAssistant),
                            Str(<<LowerLetters[i]>>))])
Histories ==
    { NotAnArray, Arr(<<>>), Arr(<<Msg(Str(strUser), Str(strQ))>>),
      Arr(<<NullEntry, Msg(Str(strUser), Str(strQ))>>), SevenTurns }

\* the test without !message
MessageNotString(message) == message.t # "string"

\* if (!message || typeof message !== 'string')
MessageMissing(message) == message.t # "string" \/ message.s = <<>>

\* <= in place of <
LoopContinuesOnceMore(functionCallAttempts) == functionCallAttempts <= maxFunctionCalls

\* while (functionCallAttempts < maxFunctionCalls)
LoopContinues(functionCallAttempts) == functionCallAttempts < maxFunctionCalls

\* the steps of a refused request, in the order of the code: the first test
\* comes before sanitizeInput, the second after it
RejectSteps(message) ==
    IF MessageMissing(message) THEN <<"send">> ELSE <<"sanitize", "send">>

\* the steps from sanitizeInput to the probe of the cache, in the order of the code
PipelineSteps(b, isCareerAnalysis) ==
    <<"sanitize", "validate">>
        \o (IF HasCache(b) THEN <<"fingerprint">> ELSE <<>>)
        \o (IF ReadsCache(b, isCareerAnalysis) THEN <<"probe">> ELSE <<>>)

\* the steps of a miss after the probe: the prompt is built, then the model is called
MissSteps(b, isCareerAnalysis) == PipelineSteps(b, isCareerAnalysis) \o <<"assemble", "model">>

\* res.json before responseCache.set
RespondStepsSendFirst(writes) ==
    IF writes THEN <<"normalize", "send", "store">> ELSE <<"normalize", "send">>

\* the steps after the last model call: jsonResponse is settled, stored, sent
RespondSteps(writes) ==
    IF writes THEN <<"normalize", "store", "send">> ELSE <<"normalize", "send">>

\* the steps of the catch block after a failure in the given step
\* a catch block that answers after a response has gone out already
FailStepsSendAgain(outcome) == <<"send", "send">>

FailSteps(outcome) ==
    IF outcome = "normalizeError" THEN <<"normalize", "send">>
    ELSE IF outcome = "toolError" THEN <<"tools", "send">>
    ELSE <<"send">>

Arrive(r, message, conversationHistory) ==
    /\ pc[r] = "idle"
    /\ inp' = [inp EXCEPT ![r] = [message |-> message, conversationHistory |-> conversationHistory]]

\* a request rejected before the pipeline: 400
Reject(r, message, conversationHistory) ==
    /\ Arrive(r, message, conversationHistory)
    /\ \/ MessageMissing(message)
       \/ sanitizeInput(message) = <<>>
    /\ res' = [res EXCEPT ![r] = IF MessageMissing(message) THEN RejectMissing ELSE RejectEmpty]
    /\ pc' = [pc EXCEPT ![r] = "done"]
    /\ obs' = [obs EXCEPT ![r] = [@ EXCEPT !.outcome = "rejected",
                                           !.steps = @ \o RejectSteps(message)]]
    /\ UNCHANGED <<build, now, cacheData, cacheStats, loc, hist, san, histOut, keyIn, keyOut, statsReply, limiter>>

\* a hit with cacheStats.misses++ placed before the probe
HitAfterCountingMiss(r, message, conversationHistory) ==
    LET l == LocalsOf(build, message, conversationHistory)
        cachedResponse == CacheGet(cacheData, l.cacheKey, now)
    IN  /\ Arrive(r, message, conversationHistory)
        /\ ~MessageMissing(message)
        /\ l.sanitizedMessage # <<>>
        /\ ReadsCache(build, l.isCareerAnalysis)
        /\ IsHit(cachedResponse)
        /\ cacheStats' = [cacheStats EXCEPT !.hits = @ + 1, !.misses = @ + 1]
        /\ res' = [res EXCEPT ![r] = [status |-> 200, body |-> ToJSON(cachedResponse)]]
        /\ loc' = [loc EXCEPT ![r] = [l EXCEPT !.prompt = <<>>]]
        /\ pc' = [pc EXCEPT ![r] = "done"]
        /\ obs' = [obs EXCEPT ![r] =
                      [@ EXCEPT !.outcome = "hit", !.cacheRead = TRUE,
                          !.steps = @ \o PipelineSteps(build, l.isCareerAnalysis) \o <<"send">>]]
        /\ UNCHANGED <<build, now, cacheData, hist, san, histOut, keyIn, keyOut, statsReply, limiter>>

\* a request answered from the cache
Hit(r, message, conversationHistory) ==
    LET l == LocalsOf(build, message, conversationHistory)
        cachedResponse == CacheGet(cacheData, l.cacheKey, now)
    IN  /\ Arrive(r, message, conversationHistory)
        /\ ~MessageMissing(message)
        /\ l.sanitizedMessage # <<>>
        /\ ReadsCache(build, l.isCareerAnalysis)
        /\ IsHit(cachedResponse)
        /\ cacheStats' = [cacheStats EXCEPT !.hits = @ + 1]
        /\ res' = [res EXCEPT ![r] = [status |-> 200, body |-> ToJSON(cachedResponse)]]
        /\ loc' = [loc EXCEPT ![r] = [l EXCEPT !.prompt = <<>>]]
        /\ pc' = [pc EXCEPT ![r] = "done"]
        /\ obs' = [obs EXCEPT ![r] = [@ EXCEPT !.outcome = "hit", !.cacheRead = TRUE,
                          !.steps = @ \o PipelineSteps(build, l.isCareerAnalysis) \o <<"send">>]]
        /\ UNCHANGED <<build, now, cacheData, hist, san, histOut, keyIn, keyOut, statsReply, limiter>>

\* a miss counted from a stale copy of the counter
CountMissStale(stats) == [stats EXCEPT !.misses = 1]

\* cacheStats.misses++
CountMiss(stats) == [stats EXCEPT !.misses = @ + 1]

\* a miss counted inside the block that probes the cache
MissCountedOnProbe(r, message, conversationHistory) ==
    LET l == LocalsOf(build, message, conversationHistory)
        reads == ReadsCache(build, l.isCareerAnalysis)
    IN  /\ Arrive(r, message, conversationHistory)
        /\ ~MessageMissing(message)
        /\ l.sanitizedMessage # <<>>
        /\ reads => ~IsHit(CacheGet(cacheData, l.cacheKey, now))
        /\ cacheData' = IF reads THEN CacheAfterGet(cacheData, l.cacheKey, now) ELSE cacheData
        /\ cacheStats' = IF reads THEN CountMiss(cacheStats) ELSE cacheStats
        /\ loc' = [loc EXCEPT ![r] = l]
        /\ pc' = [pc EXCEPT ![r] = "awaitModel"]
        /\ obs' = [obs EXCEPT ![r] = [@ EXCEPT !.modelCalls = 1, !.cacheRead = reads,
                          !.steps = @ \o MissSteps(build, l.isCareerAnalysis)]]
        /\ UNCHANGED <<build, now, res, hist, san, histOut, keyIn, keyOut, statsReply, limiter>>

\* a request that goes to the model: the cache is not read or has no usable entry
Miss(r, message, conversationHistory) ==
    LET l == LocalsOf(build, message, conversationHistory)
        reads == ReadsCache(build, l.isCareerAnalysis)
    IN  /\ Arrive(r, message, conversationHistory)
        /\ ~MessageMissing(message)
        /\ l.sanitizedMessage # <<>>
        /\ reads => ~IsHit(CacheGet(cacheData, l.cacheKey, now))
        /\ cacheData' = IF reads THEN CacheAfterGet(cacheData, l.cacheKey, now) ELSE cacheData
        /\ cacheStats' = IF HasCache(build) THEN CountMiss(cacheStats) ELSE cacheStats
        /\ loc' = [loc EXCEPT ![r] = l]
        /\ pc' = [pc EXCEPT ![r] = "awaitModel"]
        /\ obs' = [obs EXCEPT ![r] = [@ EXCEPT !.modelCalls = 1, !.cacheRead = reads,
                          !.steps = @ \o MissSteps(build, l.isCareerAnalysis)]]
        /\ UNCHANGED <<build, now, res, hist, san, histOut, keyIn, keyOut, statsReply, limiter>>

\* the end of a request that sends jsonResponse with status 200, after caching it
Respond(r, jsonResponse, outcome) ==
    LET writes == WritesCache(build, loc[r].isCareerAnalysis)
    IN  /\ cacheData' = IF writes THEN CacheSet(cacheData, loc[r].cacheKey, jsonResponse, now)
                        ELSE cacheData
        /\ cacheStats' = IF writes THEN [cacheStats EXCEPT !.saves = @ + 1] ELSE cacheStats
        /\ res' = [res EXCEPT ![r] = [status |-> 200, body |-> ToJSON(jsonResponse)]]
        /\ pc' = [pc EXCEPT ![r] = "done"]
        /\ obs' = [obs EXCEPT ![r] = [@ EXCEPT !.outcome = outcome, !.cacheWrite = writes,
                                               !.storedAt = IF writes THEN now ELSE 0,
                                               !.steps = @ \o RespondSteps(writes)]]

\* a catch block that also stores a response under the key of the request
FailAndStore(r, error, outcome, fetches) ==
    /\ res' = [res EXCEPT ![r] = CatchResponse(build, error)]
    /\ pc' = [pc EXCEPT ![r] = "done"]
    /\ obs' = [obs EXCEPT ![r] = [@ EXCEPT !.outcome = outcome, !.fetchCalls = @ + fetches,
                                           !.steps = @ \o FailSteps(outcome)]]
    /\ cacheData' = IF HasCache(build)
                    THEN CacheSet(cacheData, loc[r].cacheKey, FallbackResponse, now)
                    ELSE cacheData
    /\ UNCHANGED cacheStats

\* the end of a request in the catch block
Fail(r, error, outcome, fetches) ==
    /\ res' = [res EXCEPT ![r] = CatchResponse(build, error)]
    /\ pc' = [pc EXCEPT ![r] = "done"]
    /\ obs' = [obs EXCEPT ![r] = [@ EXCEPT !.outcome = outcome, !.fetchCalls = @ + fetches,
                                           !.steps = @ \o FailSteps(outcome)]]
    /\ UNCHANGED <<cacheData, cacheStats>>

\* what the text of the model becomes (Gemini revisions)
GeminiResponse(text) == OrFallback(ParseOrWrap(text))

\* the model call returns text
ModelReturnsText(r, text) ==
    /\ pc[r] = "awaitModel"
    /\ IF HasTools(build)
       THEN Respond(r, GeminiResponse(text), "answered")
       ELSE IF MessageAccessThrows(ParseOrWrap(text))
            THEN Fail(r, TypeError, "normalizeError", 0)
            ELSE Respond(r, EnsureMessage(ParseOrWrap(text)), "answered")
    /\ UNCHANGED <<build, now, inp, loc, hist, san, histOut, keyIn, keyOut, statsReply, limiter>>

\* the model call is rejected
ModelThrows(r, error) ==
    /\ pc[r] = "awaitModel"
    /\ Fail(r, error, "modelError", 0)
    /\ UNCHANGED <<build, now, inp, loc, hist, san, histOut, keyIn, keyOut, statsReply, limiter>>

NumFetches(calls) == Cardinality({i \in 1..Len(calls) : IsFetch(calls[i])})

\* the model call returns function calls: they are dispatched
ModelRequestsTools(r, calls) ==
    /\ pc[r] = "awaitModel"
    /\ HasTools(build)
    /\ IF \E i \in 1..Len(calls) : DispatchThrows(calls[i])
       THEN /\ Fail(r, TypeError, "toolError", NumFetches(calls))
            /\ loc' = [loc EXCEPT ![r].functionCallAttempts = @ + 1]
       ELSE /\ loc' = [loc EXCEPT ![r].functionCallAttempts = @ + 1,
                                  ![r].functionCalls = calls]
            /\ pc' = [pc EXCEPT ![r] = "awaitTools"]
            /\ obs' = [obs EXCEPT ![r].fetchCalls = @ + NumFetches(calls),
                                  ![r].steps = @ \o <<"tools">>]
            /\ UNCHANGED <<cacheData, cacheStats, res>>
    /\ UNCHANGED <<build, now, inp, hist, san, histOut, keyIn, keyOut, statsReply, limiter>>

\* all the function calls of the turn have settled
ToolsReturn(r, o) ==
    LET results == functionResponses(loc[r].functionCalls, o)
        failed  == \E i \in 1..Len(o) : IsFetch(loc[r].functionCalls[i]) /\ ~o[i]
    IN  /\ pc[r] = "awaitTools"
        /\ loc' = [loc EXCEPT ![r].prompt = AppendResults(@, results),
                              ![r].functionCalls = <<>>]
        /\ IF LoopContinues(loc[r].functionCallAttempts)
           THEN /\ pc' = [pc EXCEPT ![r] = "awaitModel"]
                /\ obs' = [obs EXCEPT ![r].modelCalls = @ + 1,
                                      ![r].fetchFailed = @ \/ failed,
                                      ![r].steps = @ \o <<"append", "model">>]
                /\ UNCHANGED <<cacheData, cacheStats, res>>
           ELSE /\ cacheData' = IF WritesCache(build, loc[r].isCareerAnalysis)
                                THEN CacheSet(cacheData, loc[r].cacheKey, FallbackResponse, now)
                                ELSE cacheData
                /\ cacheStats' = IF WritesCache(build, loc[r].isCareerAnalysis)
                                 THEN [cacheStats EXCEPT !.saves = @ + 1] ELSE cacheStats
                /\ res' = [res EXCEPT ![r] = [status |-> 200, body |-> ToJSON(FallbackResponse)]]
                /\ pc' = [pc EXCEPT ![r] = "done"]
                /\ obs' = [obs EXCEPT ![r] =
                              [@ EXCEPT !.outcome = "exhausted",
                                        !.cacheWrite = WritesCache(build, loc[r].isCareerAnalysis),
                                        !.storedAt = IF WritesCache(build, loc[r].isCareerAnalysis)
                                                     THEN now ELSE 0,
                                        !.fetchFailed = @ \/ failed,
                                        !.steps = @ \o <<"append">> \o
                                            RespondSteps(WritesCache(build, loc[r].isCareerAnalysis))]]
        /\ UNCHANGED <<build, now, inp, hist, san, histOut, keyIn, keyOut, statsReply, limiter>>

\* time passes
Tick ==
    /\ now + TickStep <= MaxTime
    /\ now' = now + TickStep
    /\ UNCHANGED <<build, cacheData, cacheStats, pc, inp, loc, res, obs, hist, san, histOut, keyIn, keyOut, statsReply, limiter>>

\* the periodic check of the cache (checkperiod) deletes the expired entries
Sweep ==
    /\ HasCache(build)
    /\ \E k \in DOMAIN cacheData : cacheData[k].t < now
    /\ cacheData' = CacheSweep(cacheData, now)
    /\ UNCHANGED <<build, now, cacheStats, pc, inp, loc, res, obs, hist, san, histOut, keyIn, keyOut, statsReply, limiter>>

\* GET /api/cache-stats: res.json({hits, misses, saves, totalRequests, cachedResponses})
StatsBody(stats, data) ==
    [hits |-> stats.hits, misses |-> stats.misses, saves |-> stats.saves,
     totalRequests |-> stats.hits + stats.misses,
     cachedResponses |-> Cardinality(DOMAIN data)]
NoStatsReply == [sent |-> FALSE, body |-> StatsBody([hits |-> 0, misses |-> 0, saves |-> 0], <<>>)]

\* a cache-stats endpoint that starts the counters afresh after reporting them
CacheStatsReadAndReset ==
    /\ HasCache(build)
    /\ statsReply' = [sent |-> TRUE, body |-> StatsBody(cacheStats, cacheData)]
    /\ statsReply' # statsReply
    /\ cacheStats' = [hits |-> 0, misses |-> 0, saves |-> 0]
    /\ UNCHANGED <<build, now, cacheData, pc, inp, loc, res, obs, hist, san, histOut, keyIn, keyOut, limiter>>

\* the cache-stats endpoint answers
CacheStatsRead ==
    /\ HasCache(build)
    /\ statsReply' = [sent |-> TRUE, body |-> StatsBody(cacheStats, cacheData)]
    /\ statsReply' # statsReply
    /\ UNCHANGED <<build, now, cacheData, cacheStats, pc, inp, loc, res, obs, hist, san, histOut, keyIn, keyOut, limiter>>

NoHistory == [done |-> FALSE, out |-> <<>>]

\* chatLimiter's store with no window open for the client, no request decided
NoLimiter ==
    [mode |-> "perClient", totalHits |-> 0, resetTime |-> 0, log |-> <<>>, passed |-> {}]

\* a request body: {message, conversationHistory}
Body(message, conversationHistory) ==
    [message |-> message, conversationHistory |-> conversationHistory]
\* what the handler derives from a body before it probes the cache
Derived(sanitizedMessage, validatedHistory, cacheKey) ==
    [sanitizedMessage |-> sanitizedMessage, validatedHistory |-> validatedHistory,
     cacheKey |-> cacheKey]
NoKeyInput == [a |-> Body(Undefined, NotAnArray), b |-> Body(Undefined, NotAnArray)]
\* no call of sanitizeInput yet
NoSan ==
    [input |-> [t |-> "undefined", s |-> <<>>], output |-> <<>>, done |-> FALSE,
     again |-> <<>>, redone |-> FALSE]

NoKeyOutput == [done |-> FALSE, a |-> Derived(<<>>, <<>>, <<>>), b |-> Derived(<<>>, <<>>, <<>>)]

Init ==
    /\ build \in Builds
    /\ now = 0
    /\ cacheData = [k \in {} |-> 0]
    /\ cacheStats = [hits |-> 0, misses |-> 0, saves |-> 0]
    /\ pc = [r \in Req |-> "idle"]
    /\ inp = [r \in Req |-> [message |-> Undefined, conversationHistory |-> NotAnArray]]
    /\ loc = [r \in Req |-> NoLocals]
    /\ res = [r \in Req |-> NoResponse]
    /\ obs = [r \in Req |-> NoObs]
    /\ hist = NotAnArray
    /\ histOut = NoHistory
    /\ keyIn = NoKeyInput
    /\ keyOut = NoKeyOutput
    /\ statsReply = NoStatsReply
    /\ san = NoSan
    /\ limiter = NoLimiter

\* replies and inputs drawn when two requests run together
DuoMessages == { Undefined, Str(<<"<", ">", " ">>), Str(strHi), Str(strCareerAnalysis) }
DuoHistories == { Arr(<<>>), Arr(<<Msg(Str(strUser), Str(strQ))>>) }
DuoTexts == { txtLinked, txtZero, txtNull, txtProse }
DuoErrors == ModelErrors
DuoToolCallLists == { <<callFetchEmptyArgs>> }

\* r2 is the request that arrives second
InOrder(r) == r = "r2" => pc["r1"] # "idle"

\* two requests, in flight together or one after the other
Next ==
    \/ \E r \in Req, m \in DuoMessages, h \in DuoHistories : InOrder(r) /\ Reject(r, m, h)
    \/ \E r \in Req, m \in DuoMessages, h \in DuoHistories : InOrder(r) /\ Hit(r, m, h)
    \/ \E r \in Req, m \in DuoMessages, h \in DuoHistories : InOrder(r) /\ Miss(r, m, h)
    \/ \E r \in Req, text \in DuoTexts : ModelReturnsText(r, text)
    \/ \E r \in Req, error \in DuoErrors : ModelThrows(r, error)
    \/ \E r \in Req, calls \in DuoToolCallLists : ModelRequestsTools(r, calls)
    \/ \E r \in Req : \E o \in Outcomes(loc[r].functionCalls) : ToolsReturn(r, o)
    \/ Tick
    \/ Sweep

Spec == Init /\ [][Next]_vars

\* the model call of r settles: text, function calls or a rejection
ModelSettles(r) ==
    \/ \E text \in DuoTexts : ModelReturnsText(r, text)
    \/ \E error \in DuoErrors : ModelThrows(r, error)
    \/ \E calls \in DuoToolCallLists : ModelRequestsTools(r, calls)

\* the function calls of r settle: Promise.all resolves
ToolsSettle(r) == \E o \in Outcomes(loc[r].functionCalls) : ToolsReturn(r, o)

\* every model call and every fetch that is awaited returns or fails in the end
EveryCallSettles == \A r \in Req : WF_vars(ModelSettles(r)) /\ WF_vars(ToolsSettle(r))

\* two requests, with calls that settle
SpecLive == Init /\ [][Next]_vars /\ EveryCallSettles

\* the same, with the cache-stats endpoint read at any moment
NextStats == Next \/ CacheStatsRead

SpecStats == Init /\ [][NextStats]_vars

\* one request to a server that has just started, with every reply the model can give
NextSolo ==
    \/ \E m \in Messages, h \in Histories : Reject("r1", m, h)
    \/ \E m \in Messages, h \in Histories : Miss("r1", m, h)
    \/ \E text \in ModelTexts : ModelReturnsText("r1", text)
    \/ \E error \in ModelErrors : ModelThrows("r1", error)
    \/ \E calls \in ToolCallLists : ModelRequestsTools("r1", calls)
    \/ \E o \in Outcomes(loc["r1"].functionCalls) : ToolsReturn("r1", o)
    \/ Tick

SpecSolo == Init /\ [][NextSolo]_vars

-----------------------------------------------------------------------------
(* validateConversationHistory on its own *)

\* the content of the entry at position i
ContentAt(i) == IF i % 4 = 0 THEN <<"<", LowerLetters[i], ">">> ELSE <<LowerLetters[i]>>

\* the entry at position i of a raw array whose malformed positions are bad
RawEntry(i, bad) ==
    IF i \in bad
    THEN CASE i % 3 = 0 -> NullEntry
           [] i % 3 = 1 -> Msg(Str(strSystem), Str(ContentAt(i)))
           [] i % 3 = 2 -> Msg(Str(strUser), Number5)
    ELSE Msg(Str(IF i % 2 = 1 THEN strUser ELSE strAssistant), Str(ContentAt(i)))

\* a raw array of n entries whose malformed positions are bad
RawHistory(n, bad) == Arr([i \in 1..n |-> RawEntry(i, bad)])

\* a raw array whose first entry has a content of more than 1000 characters
LongHistory(role) ==
    Arr(<<Msg(Str(role), Str(Pad(MaxInputLength + 1, "x"))),
          Msg(Str(strAssistant), Str(ContentAt(2)))>>)

InitHistory ==
    /\ build = "part_001"
    /\ now = 0
    /\ cacheData = [k \in {} |-> 0]
    /\ cacheStats = [hits |-> 0, misses |-> 0, saves |-> 0]
    /\ pc = [r \in Req |-> "idle"]
    /\ inp = [r \in Req |-> [message |-> Undefined, conversationHistory |-> NotAnArray]]
    /\ loc = [r \in Req |-> NoLocals]
    /\ res = [r \in Req |-> NoResponse]
    /\ obs = [r \in Req |-> NoObs]
    /\ \/ hist = NotAnArray
       \/ \E n \in 0..MaxRawHistory : \E bad \in SUBSET (1..n) : hist = RawHistory(n, bad)
       \/ \E role \in {strUser, strSystem} : hist = LongHistory(role)
    /\ histOut = NoHistory
    /\ keyIn = NoKeyInput
    /\ keyOut = NoKeyOutput
    /\ statsReply = NoStatsReply
    /\ san = NoSan
    /\ limiter = NoLimiter

Validate ==
    /\ ~histOut.done
    /\ histOut' = [done |-> TRUE, out |-> validateConversationHistory(hist)]
    /\ UNCHANGED <<build, now, cacheData, cacheStats, pc, inp, loc, res, obs, hist, san, keyIn, keyOut, statsReply, limiter>>

NextHistory == Validate

SpecHistory == InitHistory /\ [][NextHistory]_vars

-----------------------------------------------------------------------------
(* sanitizeInput on one value *)

\* the types of the values that are not strings
OtherTypes == {"undefined", "null", "number", "boolean", "object", "array"}

\* the pieces the short strings are made of
SanPieces ==
    { <<>>, <<"<">>, <<">">>, <<" ">>, <<"a">>, <<"o", "n">>, <<"x", "=">>,
      <<"J", "a", "v", "a">>, <<"s", "c", "r", "i", "p", "t", ":">> }

\* what a long string starts and ends with
SanEnds == { <<>>, <<" ">>, <<"<">>, <<"a", " ">>, <<" ", "a">> }

InitSanitize ==
    /\ build = "part_001"
    /\ now = 0
    /\ cacheData = [k \in {} |-> 0]
    /\ cacheStats = [hits |-> 0, misses |-> 0, saves |-> 0]
    /\ pc = [r \in Req |-> "idle"]
    /\ inp = [r \in Req |-> [message |-> Undefined, conversationHistory |-> NotAnArray]]
    /\ loc = [r \in Req |-> NoLocals]
    /\ res = [r \in Req |-> NoResponse]
    /\ obs = [r \in Req |-> NoObs]
    /\ hist = NotAnArray
    /\ histOut = NoHistory
    /\ keyIn = NoKeyInput
    /\ keyOut = NoKeyOutput
    /\ statsReply = NoStatsReply
    /\ limiter = NoLimiter
    /\ \/ \E t \in OtherTypes : san = [NoSan EXCEPT !.input = [t |-> t, s |-> <<>>]]
       \/ \E p1, p2, p3, p4 \in SanPieces :
              san = [NoSan EXCEPT !.input = Str(p1 \o p2 \o p3 \o p4)]
       \/ \E lead, tail \in SanEnds :
          \E n \in {MaxInputLength - 2, MaxInputLength - 1, MaxInputLength} :
              san = [NoSan EXCEPT !.input = Str(lead \o Pad(n, "x") \o tail)]

\* one call of sanitizeInput
Sanitize ==
    /\ ~san.done
    /\ san' = [san EXCEPT !.output = sanitizeInput(san.input), !.done = TRUE]
    /\ UNCHANGED <<build, now, cacheData, cacheStats, pc, inp, loc, res, obs, hist, histOut,
                   keyIn, keyOut, statsReply, limiter>>

\* the returned string comes back as the content of a history entry and
\* validateConversationHistory calls sanitizeInput on it
Resubmit ==
    /\ san.done
    /\ ~san.redone
    /\ san' = [san EXCEPT !.again = sanitizeInput(Str(san.output)), !.redone = TRUE]
    /\ UNCHANGED <<build, now, cacheData, cacheStats, pc, inp, loc, res, obs, hist, histOut,
                   keyIn, keyOut, statsReply, limiter>>

NextSanitize == Sanitize \/ Resubmit

SpecSanitize == InitSanitize /\ [][NextSanitize]_vars

-----------------------------------------------------------------------------
(* sanitizeInput, validateConversationHistory and generateCacheKey on two bodies *)

strA == <<"a">>
strB == <<"b">>
\* a message that reads like the end of a history entry followed by a message
strBarUserA == <<"a", "|", "u", "s", "e", "r", ":", "a">>

\* the entries histories are built from, and the short messages
KeyEntries == { Msg(Str(strUser), Str(strA)), Msg(Str(strAssistant), Str(strB)) }
ShortMessages == { Str(strA), Str(strB), Str(strBarUserA) }

\* the histories of n entries
KeyHistoriesOfLength(n) == { Arr(h) : h \in [1..n -> KeyEntries] }

LongMessages ==
    { LongMessage(<<>>, <<"a", "b">>), LongMessage(<<>>, <<"a", "c">>),
      LongMessage(<<>>, <<"b", "b">>), LongMessage(<<>>, <<"a">>),
      LongMessage(<<"<">>, <<"a">>), LongMessage(<<"<">>, <<"b">>),
      LongMessage(<<" ">>, <<"a", "b">>),
      LongMessage(<<>>, <<" ", "b">>), LongMessage(<<>>, <<" ", " ">>) }
LongHistories == { Arr(<<>>), Arr(<<Msg(Str(strUser), Str(strA))>>) }

\* lines 620-635 of the handler, for one body
DeriveKey(body) ==
    LET sanitizedMessage == sanitizeInput(body.message)
        validatedHistory == validateConversationHistory(body.conversationHistory)
    IN  Derived(sanitizedMessage, validatedHistory,
                generateCacheKey(sanitizedMessage, validatedHistory))

InitKey ==
    /\ build = "part_001"
    /\ now = 0
    /\ cacheData = [k \in {} |-> 0]
    /\ cacheStats = [hits |-> 0, misses |-> 0, saves |-> 0]
    /\ pc = [r \in Req |-> "idle"]
    /\ inp = [r \in Req |-> [message |-> Undefined, conversationHistory |-> NotAnArray]]
    /\ loc = [r \in Req |-> NoLocals]
    /\ res = [r \in Req |-> NoResponse]
    /\ obs = [r \in Req |-> NoObs]
    /\ hist = NotAnArray
    /\ histOut = NoHistory
    /\ keyOut = NoKeyOutput
    /\ statsReply = NoStatsReply
    /\ san = NoSan
    /\ limiter = NoLimiter
    /\ \/ \E n1, n2 \in 0..MaxKeyHistory :
            \E h1 \in KeyHistoriesOfLength(n1), h2 \in KeyHistoriesOfLength(n2) :
                \E m1, m2 \in ShortMessages :
                    keyIn = [a |-> Body(m1, h1), b |-> Body(m2, h2)]
       \/ \E m1, m2 \in LongMessages, h \in LongHistories :
            keyIn = [a |-> Body(m1, h), b |-> Body(m2, h)]

\* both bodies are taken through sanitizeInput, validateConversationHistory and
\* generateCacheKey
DeriveKeys ==
    /\ ~keyOut.done
    /\ keyOut' = [done |-> TRUE, a |-> DeriveKey(keyIn.a), b |-> DeriveKey(keyIn.b)]
    /\ UNCHANGED <<build, now, cacheData, cacheStats, pc, inp, loc, res, obs, hist, san, histOut, keyIn, statsReply, limiter>>

NextKey == DeriveKeys

SpecKey == InitKey /\ [][NextKey]_vars

-----------------------------------------------------------------------------
(* chatLimiter: express-rate-limit with its memory store, for one client identity *)

\* the window in seconds, the unit of now
windowSeconds == windowMs \div 1000

\* the resetTime of the window a request at time t falls in: the open one while it
\* lasts; otherwise a new one, which starts with the request (a store that keeps
\* a reset time per client) or at the next multiple of the window since the server
\* started (a store that resets all clients on an interval)
WindowOf(l, t) ==
    IF t < l.resetTime THEN l.resetTime
    ELSE IF l.mode = "perClient" THEN t + windowSeconds
    ELSE ((t \div windowSeconds) + 1) * windowSeconds

\* store.increment(key): the hits of the client in the window of the request
HitsAfterIncrement(l, t) == IF t < l.resetTime THEN l.totalHits + 1 ELSE 1

\* a limiter that refuses from the max-th request on
WithinLimitStrict(totalHits) == totalHits < limiterMax

\* the middleware calls next() unless totalHits > max
WithinLimit(totalHits) == totalHits <= limiterMax

InitLimiter ==
    /\ build = "part_001"
    /\ now = 0
    /\ cacheData = [k \in {} |-> 0]
    /\ cacheStats = [hits |-> 0, misses |-> 0, saves |-> 0]
    /\ pc = [r \in Req |-> "idle"]
    /\ inp = [r \in Req |-> [message |-> Undefined, conversationHistory |-> NotAnArray]]
    /\ loc = [r \in Req |-> NoLocals]
    /\ res = [r \in Req |-> NoResponse]
    /\ obs = [r \in Req |-> NoObs]
    /\ hist = NotAnArray
    /\ histOut = NoHistory
    /\ keyIn = NoKeyInput
    /\ keyOut = NoKeyOutput
    /\ statsReply = NoStatsReply
    /\ san = NoSan
    /\ \E mode \in {"perClient", "interval"} :
          limiter = [NoLimiter EXCEPT !.mode = mode,
                                      !.resetTime = IF mode = "interval" THEN windowSeconds ELSE 0]

\* the client sends a request to /api/chat: chatLimiter counts it and lets it
\* through or refuses it
LimiterRequest ==
    /\ Len(limiter.log) < MaxLimiterRequests
    /\ LET hits == HitsAfterIncrement(limiter, now)
           w    == WindowOf(limiter, now)
       IN  limiter' = [limiter EXCEPT
                          !.totalHits = hits,
                          !.resetTime = w,
                          !.log = Append(@, [t |-> now, window |-> w,
                                             allowed |-> WithinLimit(hits)])]
    /\ UNCHANGED <<build, now, cacheData, cacheStats, pc, inp, loc, res, obs, hist, san, histOut,
                   keyIn, keyOut, statsReply>>

\* time passes between two requests of the client
LimiterTick ==
    /\ now + LimiterTickStep <= MaxLimiterTime
    /\ now' = now + LimiterTickStep
    /\ UNCHANGED <<build, cacheData, cacheStats, pc, inp, loc, res, obs, hist, san, histOut,
                   keyIn, keyOut, statsReply, limiter>>

NextLimiter == LimiterRequest \/ LimiterTick

SpecLimiter == InitLimiter /\ [][NextLimiter]_vars

-----------------------------------------------------------------------------
(* app.post('/api/chat', chatLimiter, handler): the limiter in front of the handler *)

\* message of chatLimiter, sent with status 429
LimiterResponse ==
    [status |-> 429,
     body |-> ErrorBody("Rate limit exceeded", StrField("You are asking questions too fast!"), LinkNull)]

\* what the client has sent in the open window before the requests that are
\* followed: nothing, or 19 or 20 requests without a message (each counted by
\* the limiter and answered 400 by the handler, so that the cache and its
\* counters are as at the start)
EarlierHits == {0, limiterMax - 1, limiterMax}

GateMessages == { Undefined, Str(strHi) }
GateHistories == { Arr(<<>>) }
GateTexts == { txtLinked }
GateErrors == { "429" }

InitGate ==
    /\ build \in Builds
    /\ now = 0
    /\ cacheData = [k \in {} |-> 0]
    /\ cacheStats = [hits |-> 0, misses |-> 0, saves |-> 0]
    /\ pc = [r \in Req |-> "idle"]
    /\ inp = [r \in Req |-> [message |-> Undefined, conversationHistory |-> NotAnArray]]
    /\ loc = [r \in Req |-> NoLocals]
    /\ res = [r \in Req |-> NoResponse]
    /\ obs = [r \in Req |-> NoObs]
    /\ hist = NotAnArray
    /\ histOut = NoHistory
    /\ keyIn = NoKeyInput
    /\ keyOut = NoKeyOutput
    /\ statsReply = NoStatsReply
    /\ san = NoSan
    /\ \E mode \in {"perClient", "interval"}, hits \in EarlierHits :
          limiter = [NoLimiter EXCEPT
                        !.mode = mode,
                        !.totalHits = hits,
                        !.resetTime = IF mode = "interval" \/ hits > 0 THEN windowSeconds ELSE 0]

\* the limiter counts the request r
Counted(r) ==
    [limiter EXCEPT !.totalHits = HitsAfterIncrement(limiter, now),
                    !.resetTime = WindowOf(limiter, now)]

\* the limiter answers 429 and calls next() all the same
GateRefuseAndPass(r) ==
    /\ pc[r] = "idle"
    /\ r \notin limiter.passed
    /\ ~WithinLimit(HitsAfterIncrement(limiter, now))
    /\ limiter' = [Counted(r) EXCEPT !.passed = @ \cup {r}]
    /\ res' = [res EXCEPT ![r] = LimiterResponse]
    /\ obs' = [obs EXCEPT ![r] = [@ EXCEPT !.outcome = "limited", !.steps = @ \o <<"send">>]]
    /\ UNCHANGED <<build, now, cacheData, cacheStats, pc, inp, loc, hist, san, histOut,
                   keyIn, keyOut, statsReply>>

\* the limiter refuses the request r: 429 with its message, the handler is not called
GateRefuse(r) ==
    /\ pc[r] = "idle"
    /\ r \notin limiter.passed
    /\ ~WithinLimit(HitsAfterIncrement(limiter, now))
    /\ limiter' = Counted(r)
    /\ res' = [res EXCEPT ![r] = LimiterResponse]
    /\ pc' = [pc EXCEPT ![r] = "done"]
    /\ obs' = [obs EXCEPT ![r] = [@ EXCEPT !.outcome = "limited", !.steps = @ \o <<"send">>]]
    /\ UNCHANGED <<build, now, cacheData, cacheStats, inp, loc, hist, san, histOut,
                   keyIn, keyOut, statsReply>>

\* the limiter lets the request r through: next() calls the handler
GateAdmit(r) ==
    /\ pc[r] = "idle"
    /\ r \notin limiter.passed
    /\ WithinLimit(HitsAfterIncrement(limiter, now))
    /\ limiter' = [Counted(r) EXCEPT !.passed = @ \cup {r}]
    /\ UNCHANGED <<build, now, cacheData, cacheStats, pc, inp, loc, res, obs, hist, san,
                   histOut, keyIn, keyOut, statsReply>>

\* r2 is the request that reaches the limiter second
GateOrder(r) == r = "r2" => (pc["r1"] # "idle" \/ "r1" \in limiter.passed)

\* two requests of one client, each through the limiter and then the handler
NextGate ==
    \/ \E r \in Req : GateOrder(r) /\ GateAdmit(r)
    \/ \E r \in Req : GateOrder(r) /\ GateRefuse(r)
    \/ \E r \in limiter.passed, m \in GateMessages, h \in GateHistories : Reject(r, m, h)
    \/ \E r \in limiter.passed, m \in GateMessages, h \in GateHistories : Hit(r, m, h)
    \/ \E r \in limiter.passed, m \in GateMessages, h \in GateHistories : Miss(r, m, h)
    \/ \E r \in Req, text \in GateTexts : ModelReturnsText(r, text)
    \/ \E r \in Req, error \in GateErrors : ModelThrows(r, error)
    \/ Tick

SpecGate == InitGate /\ [][NextGate]_vars

-----------------------------------------------------------------------------
(* The claims *)

\* C1: in the tool-call loop, whatever the model replies (function calls on every
\* turn included), a request makes at most maxFunctionCalls = 3 model invocations.
C1_AtMostThreeModelCalls == \A r \in Req : obs[r].modelCalls <= 3

\* a request whose model asked for function calls on all three turns
C1_Witness ==
    \E r \in Req : pc[r] = "done" /\ obs[r].outcome = "exhausted" /\ obs[r].modelCalls = 3

\* C2, as claimed: when the cap is exceeded the request ends in Done with the text
\* available, or in Failed when there is none.  No turn of such a request returned
\* text, so the claim asks for a failure response.
C2_Original ==
    \A r \in Req : obs[r].outcome = "exhausted" => res[r].status >= 400

\* C2, amended: when the cap is exceeded (three turns of function calls, no text) the
\* request ends in Done with status 200 and the fixed fallback message, link null;
\* it does not end in Failed.
C2_ExhaustedGivesFallback ==
    \A r \in Req :
        obs[r].outcome = "exhausted" =>
            /\ pc[r] = "done"
            /\ res[r].status = 200
            /\ IsChatResponse(res[r].body)
            /\ res[r].body.message.s = msgTrouble
            /\ res[r].body.link = LinkNull

C2_Witness ==
    \E r \in Req : obs[r].outcome = "exhausted" /\ res[r].status = 200 /\ obs[r].fetchCalls = 3

\* C3, as claimed: once a cacheable request has completed and its response was
\* stored, a second request with the same message and history that arrives within
\* the TTL is answered at once with the same response, without a model or fetch call.
C3_Claim ==
    [][\A r1, r2 \in Req :
          ( /\ r1 # r2
            /\ pc[r1] = "done" /\ obs[r1].cacheWrite
            /\ pc[r2] = "idle" /\ pc'[r2] # "idle"
            /\ inp'[r2] = inp[r1]
            /\ now <= obs[r1].storedAt + stdTTL )
          => ( /\ pc'[r2] = "done"
               /\ res'[r2] = res[r1]
               /\ obs'[r2].modelCalls = 0
               /\ obs'[r2].fetchCalls = 0 )]_vars

\* C4, as claimed: whatever text the model returns, normalization does not raise and
\* the response is a {message: string, link: {url, text, name} | null}.
C4_Claim ==
    \A r \in Req :
        obs[r].outcome \in {"answered", "normalizeError"} =>
            res[r].status = 200 /\ IsChatResponse(res[r].body)

\* C5, as claimed: every rejection or failure response of /api/chat carries a body
\* {error: string, message: string, link: null}.
C5_Claim ==
    \A r \in Req : res[r].status >= 400 => IsErrorBody(res[r].body)

\* C6, as claimed: a failing tool invocation (fetch error, missing or malformed
\* arguments, unknown tool) is captured as a structured result of its turn and is
\* never raised: the request does not end in the catch block because of it, and every
\* result fed back to the model is a {name, response} record.
C6_Claim ==
    \A r \in Req :
        /\ obs[r].outcome # "toolError"
        /\ \A i \in 1..Len(loc[r].prompt) :
              \A j \in 1..Len(loc[r].prompt[i].results) : ~loc[r].prompt[i].results[j].isNull

\* the turn of r ends in this step with a fetch that failed
FailedFetchReturns(r) ==
    \E o \in Outcomes(loc[r].functionCalls) :
        /\ ToolsReturn(r, o)
        /\ \E i \in 1..Len(o) : IsFetch(loc[r].functionCalls[i]) /\ ~o[i]

\* the prompt of r grows in this step by one block of results that holds a failure
FailureAppended(r) ==
    /\ Len(loc'[r].prompt) = Len(loc[r].prompt) + 1
    /\ SubSeq(loc'[r].prompt, 1, Len(loc[r].prompt)) = loc[r].prompt
    /\ LET seg == loc'[r].prompt[Len(loc'[r].prompt)]
       IN  /\ seg.kind = "results"
           /\ \E j \in 1..Len(seg.results) :
                 ~seg.results[j].isNull /\ ~seg.results[j].success

C8_ModelErrorFails ==
    [][\A r \in Req :
          /\ (pc[r] = "awaitModel" /\ obs'[r].outcome = "modelError") =>
                /\ pc'[r] = "done"
                /\ res'[r].status >= 400
                /\ IsErrorBody(res'[r].body)
                /\ cacheData' = cacheData
                /\ cacheStats' = cacheStats
                /\ obs'[r].modelCalls = obs[r].modelCalls
                /\ obs'[r].fetchCalls = obs[r].fetchCalls
                /\ ~obs'[r].cacheWrite
          /\ obs[r].outcome = "modelError" =>
                pc'[r] = "done" /\ obs'[r] = obs[r] /\ res'[r] = res[r]]_vars

\* a model call failed while the cache held a response
C8_Witness ==
    \E r \in Req :
        /\ obs[r].outcome = "modelError" /\ res[r].status \in {429, 500, 503}
        /\ DOMAIN cacheData # {}

\* whether a message is a career analysis request
CareerMessage(message) ==
    \/ Includes(sanitizeInput(message), strCareerAnalysis)
    \/ Includes(sanitizeInput(message), strCareerQuiz)

ValidPositions(a, first, last) == {i \in first..last : i >= 1 /\ IsValidEntry(a[i])}

\* C10, as claimed: for an array longer than 10 entries, validateConversationHistory
\* returns the 10 most recent of the valid entries of the whole array (each cleaned).
C10_Original ==
    (histOut.done /\ hist.t = "array" /\ Len(hist.a) > 10) =>
        LET valid == SelectSeq(hist.a, IsValidEntry)
            last  == SubSeq(valid, Max(1, Len(valid) - 9), Len(valid))
        IN  histOut.out = [i \in 1..Len(last) |-> CleanEntry(last[i])]

\* C10, amended: for an array longer than 10 entries, validateConversationHistory
\* returns, in order, the valid entries among the 10 most recent entries of the array
\* (valid or not), each as {role, sanitized content}; entries before these ten are
\* never returned, so fewer than 10 come back when one of the ten is not valid.
C10_ValidOfLastTen ==
    (histOut.done /\ hist.t = "array" /\ Len(hist.a) > 10) =>
        LET n   == Len(hist.a)
            idx == ValidPositions(hist.a, n - 9, n)
        IN  /\ Len(histOut.out) = Cardinality(idx)
            /\ Len(histOut.out) <= 10
            /\ \A i \in idx :
                  LET k == Cardinality({j \in idx : j <= i})
                  IN  /\ histOut.out[k].role = hist.a[i].role.s
                      /\ histOut.out[k].content = sanitizeInput(hist.a[i].content)

\* an array of more than 10 entries with an entry that is not valid among its last
\* ten and a valid one before them: fewer than 10 entries come back
C10_Witness ==
    /\ histOut.done /\ hist.t = "array" /\ Len(hist.a) > 10
    /\ \E i \in (Len(hist.a) - 9)..Len(hist.a) : ~IsValidEntry(hist.a[i])
    /\ ValidPositions(hist.a, 1, Len(hist.a) - 10) # {}
    /\ Len(histOut.out) < 10
    /\ Len(histOut.out) > 0

\* the last three entries of a validated history
LastThree(h) == SubSeq(h, IF Len(h) > 3 THEN Len(h) - 2 ELSE 1, Len(h))

\* C11, as claimed: two inputs of generateCacheKey that differ in the message or in
\* the role or content of one of the last 3 validated history entries get different
\* keys (the hash taken to be injective), also when contents contain "|" or ":".
C11_Claim ==
    ( /\ keyOut.done
      /\ \/ keyOut.a.sanitizedMessage # keyOut.b.sanitizedMessage
         \/ LastThree(keyOut.a.validatedHistory) # LastThree(keyOut.b.validatedHistory) )
    => keyOut.a.cacheKey # keyOut.b.cacheKey

\* C12: the key is determined by the sanitized message and the last 3 validated
\* history entries: two bodies whose sanitized messages are equal and whose validated
\* histories agree on their last 3 entries get the same key, whatever the older
\* entries are.
C12_KeyOfLastThree ==
    ( /\ keyOut.done
      /\ keyOut.a.sanitizedMessage = keyOut.b.sanitizedMessage
      /\ LastThree(keyOut.a.validatedHistory) = LastThree(keyOut.b.validatedHistory) )
    => keyOut.a.cacheKey = keyOut.b.cacheKey

\* two histories of four entries that differ in the oldest one only, same message:
\* one key
C12_Witness ==
    /\ keyOut.done
    /\ Len(keyOut.a.validatedHistory) = 4 /\ Len(keyOut.b.validatedHistory) = 4
    /\ keyOut.a.validatedHistory[1] # keyOut.b.validatedHistory[1]
    /\ LastThree(keyOut.a.validatedHistory) = LastThree(keyOut.b.validatedHistory)
    /\ keyOut.a.sanitizedMessage = keyOut.b.sanitizedMessage
    /\ keyOut.a.cacheKey = keyOut.b.cacheKey

\* both messages are strings longer than the cap, sent with the same history
BothOverCap ==
    /\ keyOut.done
    /\ keyIn.a.message.t = "string" /\ keyIn.b.message.t = "string"
    /\ Len(keyIn.a.message.s) > 1000 /\ Len(keyIn.b.message.s) > 1000
    /\ keyIn.a.conversationHistory = keyIn.b.conversationHistory

\* the two raw messages agree on their first 1000 characters
AgreeUpToCap ==
    SubSeq(keyIn.a.message.s, 1, 1000) = SubSeq(keyIn.b.message.s, 1, 1000)

\* a raw message of which sanitizeInput removes nothing within the cap: none of the
\* characters < > : = in it, no white space in front, and its 1000th character is
\* not white space
KeptWithinCap(raw) ==
    /\ \A i \in 1..Len(raw) : raw[i] \notin {"<", ">", ":", "="}
    /\ raw[1] \notin {" ", "\n", "\t", "\r"}
    /\ raw[1000] \notin {" ", "\n", "\t", "\r"}

\* C13, as claimed: a message longer than 1000 characters is sanitized to at most
\* 1000 characters, and two raw messages (same history) that differ only at positions
\* beyond the 1000th get the same key.
C13_Original ==
    BothOverCap =>
        /\ Len(keyOut.a.sanitizedMessage) <= 1000
        /\ Len(keyOut.b.sanitizedMessage) <= 1000
        /\ AgreeUpToCap => keyOut.a.cacheKey = keyOut.b.cacheKey

\* C13, amended: a message longer than 1000 characters is sanitized to at most 1000
\* characters; the cap applies after the removals and the trim, so two raw messages
\* (same history) that differ only beyond the 1000th position get the same key when
\* sanitizeInput removes nothing within the cap (no < > : = in them, no white space
\* in front or at position 1000), and their sanitized form is then the first 1000
\* raw characters.
C13_KeyOfCappedMessage ==
    BothOverCap =>
        /\ Len(keyOut.a.sanitizedMessage) <= 1000
        /\ Len(keyOut.b.sanitizedMessage) <= 1000
        /\ (AgreeUpToCap /\ KeptWithinCap(keyIn.a.message.s) /\ KeptWithinCap(keyIn.b.message.s))
              => /\ keyOut.a.sanitizedMessage = SubSeq(keyIn.a.message.s, 1, 1000)
                 /\ keyOut.a.cacheKey = keyOut.b.cacheKey

\* two messages of 1001 characters that differ in the last one only: one key
C13_Witness ==
    /\ BothOverCap /\ AgreeUpToCap
    /\ KeptWithinCap(keyIn.a.message.s) /\ KeptWithinCap(keyIn.b.message.s)
    /\ keyIn.a.message # keyIn.b.message
    /\ Len(keyOut.a.sanitizedMessage) = 1000
    /\ keyOut.a.cacheKey = keyOut.b.cacheKey

\* a body whose message is missing, not a string, or the empty string
NoMessage(body) == body.message.t # "string" \/ Len(body.message.s) = 0

\* a body whose message holds nothing but angle brackets and white space
BlankMessage(body) ==
    /\ ~NoMessage(body)
    /\ \A i \in 1..Len(body.message.s) : body.message.s[i] \in {"<", ">", " ", "\n", "\t", "\r"}

\* a body whose message keeps a character whatever sanitizeInput removes: it has
\* no ":" or "=" and a character that is neither an angle bracket nor white space
Substantial(body) ==
    /\ ~NoMessage(body)
    /\ \A i \in 1..Len(body.message.s) : body.message.s[i] \notin {":", "="}
    /\ \E i \in 1..Len(body.message.s) :
          body.message.s[i] \notin {"<", ">", " ", "\n", "\t", "\r"}

\* a body whose message is longer than the cap
Oversized(body) == body.message.t = "string" /\ Len(body.message.s) > 1000

\* a body whose history is not an array, or holds an entry that is not an object
MalformedHistory(body) ==
    \/ body.conversationHistory.t # "array"
    \/ \E i \in 1..Len(body.conversationHistory.a) : body.conversationHistory.a[i].t # "object"

\* the request r is answered 400 in this step and has touched nothing
RejectedUntouched(r) ==
    /\ pc'[r] = "done"
    /\ res'[r].status = 400
    /\ cacheData' = cacheData
    /\ cacheStats' = cacheStats
    /\ obs'[r].modelCalls = 0 /\ obs'[r].fetchCalls = 0
    /\ ~obs'[r].cacheRead /\ ~obs'[r].cacheWrite

C15_CountersNeverDecrease ==
    [][/\ cacheStats'.hits >= cacheStats.hits
       /\ cacheStats'.misses >= cacheStats.misses
       /\ cacheStats'.saves >= cacheStats.saves]_vars

\* all three counters have moved, an expired entry has been swept, and the
\* cache-stats endpoint has reported the counters
C15_Witness ==
    /\ cacheStats.hits >= 1 /\ cacheStats.misses >= 1 /\ cacheStats.saves >= 1
    /\ statsReply.sent /\ statsReply.body.hits >= 1 /\ statsReply.body.saves >= 1
    /\ now > 0

\* the requests up to the i-th that the limiter counted in the window of the i-th
CountedWith(i) == {k \in 1..i : limiter.log[k].window = limiter.log[i].window}

\* C16: for one client, a request is allowed if and only if it is among the first
\* 20 of its window, a window lasts 60 seconds, and so of 21 requests sent within
\* one window the first 20 are allowed and the 21st is refused.
C16_TwentyPerWindow ==
    \A i \in 1..Len(limiter.log) :
        /\ limiter.log[i].allowed <=> Cardinality(CountedWith(i)) <= 20
        /\ limiter.log[i].t < limiter.log[i].window
        /\ limiter.log[i].t >= limiter.log[i].window - 60
        /\ \A k \in 1..i : limiter.log[k].window <= limiter.log[i].window

\* 21 requests in one window, not all at the same moment: 20 allowed, the 21st refused
C16_Witness ==
    /\ Len(limiter.log) >= 21
    /\ limiter.log[21].window = limiter.log[1].window
    /\ limiter.log[21].t > limiter.log[1].t
    /\ \A i \in 1..20 : limiter.log[i].allowed
    /\ ~limiter.log[21].allowed

\* r1 and r2 carry the same fingerprint and both found the cache without a usable
\* entry for it
BothMissed(r1, r2) ==
    /\ r1 # r2
    /\ HasCache(build)
    /\ pc[r1] # "idle" /\ pc[r2] # "idle"
    /\ loc[r1].cacheKey = loc[r2].cacheKey
    /\ obs[r1].cacheRead /\ obs[r2].cacheRead
    /\ obs[r1].outcome # "hit" /\ obs[r2].outcome # "hit"

\* C17: two requests with the same fingerprint that both probe the cache before
\* either has stored each call the model; each store puts the storing request's own
\* response under the fingerprint, replacing what was there and touching no other
\* key, so afterwards the cache holds one entry for the fingerprint, the response of
\* the request that stored last.
C17_LastStoreWins ==
    /\ [](\A r1, r2 \in Req :
             BothMissed(r1, r2) => obs[r1].modelCalls >= 1 /\ obs[r2].modelCalls >= 1)
    /\ [][\A r \in Req :
             (pc[r] # "done" /\ pc'[r] = "done" /\ obs'[r].cacheWrite) =>
                 /\ DOMAIN cacheData' = DOMAIN cacheData \cup {loc[r].cacheKey}
                 /\ ToJSON(cacheData'[loc[r].cacheKey].v) = res'[r].body
                 /\ cacheData'[loc[r].cacheKey].t = now + 86400
                 /\ \A k \in DOMAIN cacheData : k # loc[r].cacheKey => cacheData'[k] = cacheData[k]
                 /\ cacheStats'.saves = cacheStats.saves + 1]_vars

\* both requests missed, called the model and stored different responses under the
\* same fingerprint: the cache holds one of the two
C17_Witness ==
    \E r1, r2 \in Req :
        /\ BothMissed(r1, r2)
        /\ pc[r1] = "done" /\ pc[r2] = "done"
        /\ obs[r1].cacheWrite /\ obs[r2].cacheWrite
        /\ obs[r1].modelCalls >= 1 /\ obs[r2].modelCalls >= 1
        /\ res[r1].body # res[r2].body
        /\ cacheStats.saves = 2
        /\ DOMAIN cacheData = {loc[r1].cacheKey}
        /\ ToJSON(cacheData[loc[r1].cacheKey].v) = res[r2].body


\* the place of a step in the order of the pipeline; the calls of the model,
\* the tool calls and the appending of their results repeat within one place
StepRank(step) ==
    CASE step = "sanitize"    -> 1
      [] step = "validate"    -> 2
      [] step = "fingerprint" -> 3
      [] step = "probe"       -> 4
      [] step = "assemble"    -> 5
      [] step \in {"model", "tools", "append"} -> 6
      [] step = "normalize"   -> 7
      [] step = "store"       -> 8
      [] step = "send"        -> 9

\* C18: within one request the steps taken occur in the order sanitize,
\* validate, fingerprint, probe, assemble, model and tools, normalize, store,
\* send, none of them twice except the model and tool turns; a request that
\* reads the cache has probed before any model call; a store comes right after
\* the normalization and right before the response, which is the last step
C18_StepsInOrder ==
    \A r \in Req :
        LET t == obs[r].steps
        IN  /\ \A i, j \in 1..Len(t) :
                  i < j => /\ StepRank(t[i]) <= StepRank(t[j])
                           /\ StepRank(t[i]) = StepRank(t[j]) => StepRank(t[i]) = 6
            /\ \A j \in 1..Len(t) :
                  (t[j] = "model" /\ ReadsCache(build, loc[r].isCareerAnalysis)) =>
                      \E i \in 1..(j - 1) : t[i] = "probe"
            /\ \A j \in 1..Len(t) :
                  t[j] = "store" => /\ j > 1 /\ t[j - 1] = "normalize"
                                    /\ j < Len(t) /\ t[j + 1] = "send"
            /\ \A j \in 1..Len(t) : t[j] = "send" => j = Len(t)

\* a finished request that went through every step, tool turn included
C18_Witness ==
    \E r \in Req :
        /\ pc[r] = "done"
        /\ {"sanitize", "validate", "fingerprint", "probe", "assemble", "model",
            "tools", "append", "normalize", "store", "send"}
               \subseteq {obs[r].steps[i] : i \in 1..Len(obs[r].steps)}


\* C19, as claimed: model output without a usable message (missing, empty or not
\* a string) gets the fixed apology as its message, so every 2xx response of a
\* finished request is an object whose message is a non-empty string
C19_Claim ==
    \A r \in Req :
        (pc[r] = "done" /\ Is2xx(res[r].status)) =>
            /\ res[r].body.t = "object"
            /\ res[r].body.message.t = "string"
            /\ res[r].body.message.s # ""


\* the model texts that JSON.parse refuses once the code fences are stripped
UnparsableTexts == {text \in ModelTexts : JSONparseThrows(StripFences(text))}

\* the request r ends in this step with status 200 and the given message, link
\* null, and the response is stored under the key of r when responses of r are stored
AnsweredWith(r, message) ==
    /\ pc'[r] = "done"
    /\ res'[r] = [status |-> 200, body |-> Object(NoField, StrField(message), LinkNull)]
    /\ WritesCache(build, loc[r].isCareerAnalysis) =>
          /\ loc[r].cacheKey \in DOMAIN cacheData'
          /\ cacheData'[loc[r].cacheKey].v = res'[r].body
          /\ cacheStats'.saves = cacheStats.saves + 1

\* C20, as claimed: when the text of the model fails to parse, the request is
\* answered 200 with {message: <the text>, link: null}, stored in the cache like
\* any other successful response
C20_Original ==
    [][\A r \in Req : \A text \in UnparsableTexts :
          ModelReturnsText(r, text) => AnsweredWith(r, StripFences(text))]_vars

\* C20, amended: when the text of the model fails to parse, the request is
\* answered 200 with {message: <the text>, link: null} and the response is
\* stored like any other successful response; in the GPT revision an empty text
\* is answered with the fixed apology as message instead
C20_UnparsableTextIsWrapped ==
    [][\A r \in Req : \A text \in UnparsableTexts :
          ModelReturnsText(r, text) =>
              AnsweredWith(r, IF ~HasTools(build) /\ StripFences(text) = txtEmpty
                              THEN msgFormatting ELSE StripFences(text))]_vars

\* prose of the model was sent as the message of a 200 response and is in the cache
C20_Witness ==
    \E r \in Req :
        /\ pc[r] = "done"
        /\ obs[r].outcome = "answered"
        /\ res[r] = [status |-> 200, body |-> Object(NoField, StrField(txtProse), LinkNull)]
        /\ obs[r].cacheWrite
        /\ loc[r].cacheKey \in DOMAIN cacheData
        /\ cacheData[loc[r].cacheKey].v = res[r].body


\* C21: sanitizeInput returns the empty string for every value that is not a
\* string, and a string of at most 1000 characters for every string
C21_SanitizedIsCapped ==
    san.done =>
        /\ san.input.t # "string" => san.output = <<>>
        /\ Len(san.output) <= 1000

\* a string of more than 1000 characters was cut to 1000
C21_Witness ==
    /\ san.done
    /\ san.input.t = "string"
    /\ Len(san.input.s) > 1000
    /\ Len(san.output) = 1000


\* the returned entry out is the raw entry msg with its role and its content sanitized
CleanedFrom(out, msg) ==
    /\ msg.t = "object"
    /\ msg.role.t = "string" /\ out.role = msg.role.s
    /\ msg.content.t = "string" /\ out.content = sanitizeInput(msg.content)

\* whether out[i..] can be matched, in order, with entries of a[j..]
RECURSIVE EmbedsFrom(_, _, _, _)
EmbedsFrom(out, a, i, j) ==
    IF i > Len(out) THEN TRUE
    ELSE IF j > Len(a) THEN FALSE
    ELSE IF CleanedFrom(out[i], a[j]) THEN EmbedsFrom(out, a, i + 1, j + 1)
    ELSE EmbedsFrom(out, a, i, j + 1)

\* C22: the output of validateConversationHistory has at most 10 entries and is
\* an order-preserving subsequence of the input entries (each with its content
\* sanitized); a value that is not an array gives the empty sequence
C22_OrderedSubsequence ==
    histOut.done =>
        /\ Len(histOut.out) <= 10
        /\ hist.t # "array" => histOut.out = <<>>
        /\ hist.t = "array" => EmbedsFrom(histOut.out, hist.a, 1, 1)

\* an array of more than 10 entries gave exactly 10, and older entries are gone
C22_Witness ==
    /\ histOut.done
    /\ hist.t = "array"
    /\ Len(hist.a) > 10
    /\ Len(histOut.out) = 10
    /\ ~CleanedFrom(histOut.out[1], hist.a[1])


\* C23: every entry validateConversationHistory returns has role user or
\* assistant and a content of at most 1000 characters, and is a valid input
\* entry with the same role and its content sanitized; entries that are not
\* valid are left out (no more entries come back than are valid), and the input
\* array is as it was
C23_ValidEntriesOnly ==
    [][(~histOut.done /\ histOut'.done) =>
          /\ hist' = hist
          /\ \A k \in 1..Len(histOut'.out) :
                /\ histOut'.out[k].role \in {strUser, strAssistant}
                /\ Len(histOut'.out[k].content) <= 1000
                /\ \E i \in 1..Len(hist.a) :
                      IsValidEntry(hist.a[i]) /\ CleanedFrom(histOut'.out[k], hist.a[i])
          /\ hist.t = "array" =>
                Len(histOut'.out) <= Cardinality(ValidPositions(hist.a, 1, Len(hist.a)))]_vars

\* an entry with the role system was left out while other entries came back
C23_Witness ==
    /\ histOut.done
    /\ hist.t = "array"
    /\ Len(histOut.out) > 0
    /\ \E i \in 1..Len(hist.a) :
          /\ hist.a[i].t = "object"
          /\ hist.a[i].role = Str(strSystem)
          /\ \A k \in 1..Len(histOut.out) : histOut.out[k].content # sanitizeInput(hist.a[i].content)


\* C24: validateConversationHistory truncates before it filters: no entry
\* placed before the last 10 raw entries comes back, also when some of the
\* last 10 are not valid, and as many entries come back as are valid among
\* the last 10
C24_TruncatesBeforeFiltering ==
    (histOut.done /\ hist.t = "array") =>
        LET n == Len(hist.a)
        IN  /\ \A i \in 1..(n - 10) :
                  \A k \in 1..Len(histOut.out) : ~CleanedFrom(histOut.out[k], hist.a[i])
            /\ Len(histOut.out) = Cardinality(ValidPositions(hist.a, n - 9, n))

\* twelve entries, the two oldest valid, at most eight of the last ten valid:
\* the two oldest do not fill the places left
C24_Witness ==
    /\ histOut.done
    /\ hist.t = "array"
    /\ Len(hist.a) = 12
    /\ ValidPositions(hist.a, 1, 2) = {1, 2}
    /\ Len(histOut.out) \in 1..8


\* the response r gets in this step: the given status and error value
FailsWith(r, status, error) ==
    /\ pc'[r] = "done"
    /\ res'[r].status = status
    /\ res'[r].body.error = StrField(error)

\* the failures the claim names: 429 in the message, the code insufficient_quota
Throttled == {"429", "429 insufficient_quota"}
QuotaExhausted == {"insufficient_quota", "429 insufficient_quota"}

\* C25, as claimed: a model failure with 429 in its message is answered 429
\* API rate limit, one with the code insufficient_quota 503 Service
\* unavailable, and every other model failure 500 Failed to generate response
C25_Original ==
    [][\A r \in Req : \A error \in ModelErrors :
          ModelThrows(r, error) =>
              IF error \in QuotaExhausted THEN FailsWith(r, 503, "Service unavailable")
              ELSE IF error \in Throttled THEN FailsWith(r, 429, "API rate limit")
              ELSE FailsWith(r, 500, "Failed to generate response")]_vars

\* C25, amended: a model failure with 429 in its message is answered 429 API
\* rate limit in every revision; in the GPT revision one with the code
\* insufficient_quota and no 429 in its message is answered 503 Service
\* unavailable and one with status 401 is answered 500 Configuration error;
\* every other model failure is answered 500 Failed to generate response
C25_ThrottlingAndQuotaSurfaced ==
    [][\A r \in Req : \A error \in ModelErrors :
          ModelThrows(r, error) =>
              IF error \in Throttled THEN FailsWith(r, 429, "API rate limit")
              ELSE IF build = "part_001" /\ error \in QuotaExhausted
                   THEN FailsWith(r, 503, "Service unavailable")
              ELSE IF build = "part_001" /\ error = "401"
                   THEN FailsWith(r, 500, "Configuration error")
              ELSE FailsWith(r, 500, "Failed to generate response")]_vars

\* a quota failure of the GPT revision was answered 503
C25_Witness ==
    \E r \in Req :
        /\ build = "part_001"
        /\ obs[r].outcome = "modelError"
        /\ res[r].status = 503
        /\ res[r].body.error = StrField("Service unavailable")


IsHistoryLine(segment) == segment.kind = "history"

\* the label the prompt of build b gives to a turn of the given role
LabelOf(b, role) ==
    IF b = "part_001" THEN (IF role = strUser THEN "user" ELSE "assistant")
    ELSE (IF role = strUser THEN "User" ELSE "Jeff")

\* the prompt of r shows the entries h in their order, each under the label of
\* its role, between the system prompt and the current message, which is the
\* last element until tool results are appended
RendersInOrder(r, h) ==
    LET prompt == loc[r].prompt
        lines  == SelectSeq(prompt, IsHistoryLine)
    IN  /\ Len(lines) = Len(h)
        /\ \A i \in 1..Len(h) :
              /\ prompt[i + 1] = lines[i]
              /\ lines[i].text = h[i].content
              /\ lines[i].role = LabelOf(build, h[i].role)
        /\ prompt[1].kind = "system"
        /\ prompt[Len(h) + 2].kind = "current"
        /\ prompt[Len(h) + 2].text = loc[r].sanitizedMessage
        /\ loc[r].functionCallAttempts = 0 => Len(prompt) = Len(h) + 2

\* the validated history and the sanitized message of a request stay what the
\* validator and the sanitizer returned
InputsKept ==
    [][\A r \in Req :
          /\ (pc[r] = "idle" /\ pc'[r] = "awaitModel") =>
                /\ loc'[r].sanitizedMessage = sanitizeInput(inp'[r].message)
                /\ loc'[r].validatedHistory =
                       validateConversationHistory(inp'[r].conversationHistory)
          /\ pc[r] # "idle" =>
                /\ loc'[r].sanitizedMessage = loc[r].sanitizedMessage
                /\ loc'[r].validatedHistory = loc[r].validatedHistory]_vars

C27_ContextOnlyGrows ==
    /\ [](\A r \in Req :
            obs[r].modelCalls >= 1 =>
                LET first == BuildPrompt(build, loc[r].validatedHistory, loc[r].sanitizedMessage)
                    prompt == loc[r].prompt
                IN  /\ Len(prompt) >= Len(first)
                    /\ SubSeq(prompt, 1, Len(first)) = first
                    /\ \A i \in (Len(first) + 1)..Len(prompt) : prompt[i].kind = "results"
                    /\ Len(prompt) - Len(first) \in
                           {loc[r].functionCallAttempts, loc[r].functionCallAttempts - 1})
    /\ [][\A r \in Req :
            (pc[r] = "awaitTools" /\ pc'[r] # "awaitTools") =>
                /\ Len(loc'[r].prompt) = Len(loc[r].prompt) + 1
                /\ SubSeq(loc'[r].prompt, 1, Len(loc[r].prompt)) = loc[r].prompt
                /\ loc'[r].prompt[Len(loc'[r].prompt)].kind = "results"
                /\ Len(loc'[r].prompt[Len(loc'[r].prompt)].results) = Len(loc[r].functionCalls)]_vars

\* a third model call was made with a history line and the results of two turns
C27_Witness ==
    \E r \in Req :
        /\ obs[r].modelCalls = 3
        /\ Len(loc[r].validatedHistory) >= 1
        /\ Len(loc[r].prompt) = Len(loc[r].validatedHistory) + 4
        /\ loc[r].prompt[Len(loc[r].prompt)].kind = "results"


\* C28: a request the rate limiter refuses never enters the pipeline: the step
\* that refuses it answers 429 and changes neither the cache nor hits, misses
\* and saves, and the request makes no cache read or write and no model or
\* fetch call, then or later
C28_RefusedNeverEnters ==
    /\ [](\A r \in Req :
            obs[r].outcome = "limited" =>
                /\ pc[r] = "done"
                /\ res[r] = LimiterResponse
                /\ loc[r] = NoLocals
                /\ obs[r].modelCalls = 0 /\ obs[r].fetchCalls = 0
                /\ ~obs[r].cacheRead /\ ~obs[r].cacheWrite)
    /\ [][\A r \in Req :
            (obs'[r].outcome = "limited" /\ obs[r].outcome # "limited") =>
                cacheData' = cacheData /\ cacheStats' = cacheStats]_vars

\* the 21st request of the window was refused while the other request of the
\* client, let through before, had gone to the model
C28_Witness ==
    \E r1, r2 \in Req :
        /\ obs[r1].outcome = "limited"
        /\ limiter.totalHits = 21
        /\ obs[r2].modelCalls = 1
        /\ cacheStats.misses + cacheStats.hits >= 1


\* C29: a cache entry expires 24 hours after it was stored: every store sets
\* the expiry to that time and nothing else moves it, and a request that
\* reads the cache after the expiry of the entry of its key is a miss that
\* calls the model, while a hit only returns an entry that has not expired
C29_ExpiredEntryMisses ==
    [][/\ \A k \in DOMAIN cacheData' :
             (k \notin DOMAIN cacheData \/ cacheData'[k].t # cacheData[k].t) =>
                 /\ cacheData'[k].t = now + 86400
                 /\ \E r \in Req : obs'[r].cacheWrite /\ ~obs[r].cacheWrite /\ loc[r].cacheKey = k
       /\ \A r \in Req :
             ( /\ pc[r] = "idle" /\ obs'[r].cacheRead
               /\ loc'[r].cacheKey \in DOMAIN cacheData
               /\ cacheData[loc'[r].cacheKey].t < now )
             => /\ pc'[r] = "awaitModel"
                /\ obs'[r].modelCalls = 1
                /\ res'[r] = NoResponse
                /\ cacheStats'.misses = cacheStats.misses + 1
                /\ cacheStats'.hits = cacheStats.hits
       /\ \A r \in Req :
             (pc[r] = "idle" /\ obs'[r].outcome = "hit") =>
                 /\ loc'[r].cacheKey \in DOMAIN cacheData
                 /\ cacheData[loc'[r].cacheKey].t >= now]_vars

\* a request found the entry of its key expired (the probe removed it) and
\* waits for the model, two days after the start
C29_Witness ==
    \E r1, r2 \in Req :
        /\ pc[r1] = "done" /\ obs[r1].cacheWrite /\ obs[r1].storedAt = 0
        /\ pc[r2] = "awaitModel" /\ obs[r2].cacheRead
        /\ loc[r2].cacheKey = loc[r1].cacheKey
        /\ loc[r2].cacheKey \notin DOMAIN cacheData
        /\ now > 86400
        /\ cacheStats.hits = 0 /\ cacheStats.misses = 2


\* the cache-stats endpoint answers in this step, changing neither the cache
\* nor the counters, and reports hits, misses and saves as they are and the
\* given number of entries
ReportsReadOnly(entries) ==
    /\ cacheData' = cacheData
    /\ cacheStats' = cacheStats
    /\ statsReply'.body.hits = cacheStats.hits
    /\ statsReply'.body.misses = cacheStats.misses
    /\ statsReply'.body.saves = cacheStats.saves
    /\ statsReply'.body.cachedResponses = entries

\* C30, as claimed: GET /api/cache-stats is read-only and reports the current
\* hits, misses and saves and the number of live (not expired) entries
C30_Claim ==
    [][statsReply' # statsReply =>
          ReportsReadOnly(Cardinality({k \in DOMAIN cacheData : cacheData[k].t >= now}))]_vars


\* C31: a cache hit ends the request in the step of the probe: the cached
\* value is sent with status 200, hits grows by exactly 1, misses, saves and
\* the cache contents stay as they were, no prompt is assembled and no model
\* or fetch call is made
C31_HitReturnsAtOnce ==
    [][\A r \in Req :
          (pc[r] = "idle" /\ obs'[r].outcome = "hit") =>
              /\ pc'[r] = "done"
              /\ res'[r].status = 200
              /\ res'[r].body = ToJSON(cacheData[loc'[r].cacheKey].v)
              /\ cacheStats'.hits = cacheStats.hits + 1
              /\ cacheStats'.misses = cacheStats.misses
              /\ cacheStats'.saves = cacheStats.saves
              /\ cacheData' = cacheData
              /\ loc'[r].prompt = <<>>
              /\ obs'[r].modelCalls = 0 /\ obs'[r].fetchCalls = 0
              /\ \A i \in 1..Len(obs'[r].steps) :
                    obs'[r].steps[i] \notin {"assemble", "model", "tools", "store"}]_vars

\* a request was answered from the cache a day after the entry was stored
C31_Witness ==
    \E r \in Req :
        /\ obs[r].outcome = "hit"
        /\ res[r].status = 200
        /\ cacheStats.hits = 1 /\ cacheStats.saves = 1 /\ cacheStats.misses = 1
        /\ now > 0


\* the requests that passed the tests of the message in a revision with a cache
PassedValidation ==
    {r \in Req : HasCache(build) /\ pc[r] # "idle" /\ obs[r].outcome # "rejected"}

\* C32, as claimed: in every state saves <= misses, and hits + misses is the
\* number of requests that passed input validation and reached the cache probe
C32_Original ==
    /\ cacheStats.saves <= cacheStats.misses
    /\ cacheStats.hits + cacheStats.misses = Cardinality({r \in PassedValidation : obs[r].cacheRead})

\* C32, amended: in every state saves <= misses, and hits + misses is the
\* number of requests that passed input validation, whether they reached the
\* cache probe or, as career analysis requests of the GPT revision, skipped it
C32_CountersMatchRequests ==
    /\ cacheStats.saves <= cacheStats.misses
    /\ cacheStats.hits + cacheStats.misses = Cardinality(PassedValidation)

\* two requests in flight together were both counted as misses, one of them
\* a career analysis request that did not probe the cache
C32_Witness ==
    /\ cacheStats.misses = 2
    /\ \E r1, r2 \in Req :
          /\ r1 # r2
          /\ pc[r1] = "awaitModel" /\ obs[r1].cacheRead
          /\ pc[r2] # "idle" /\ ~obs[r2].cacheRead /\ loc[r2].isCareerAnalysis


\* r ended with the cap exhausted in a revision with a cache, and its entry
\* has not expired
FallbackFresh(r) ==
    /\ HasCache(build)
    /\ obs[r].outcome = "exhausted"
    /\ now <= obs[r].storedAt + stdTTL

\* a request that exhausts the cap is answered 200 with the fallback and
\* stores it under its key
ExhaustedStoresFallback ==
    \A r \in Req :
        (HasCache(build) /\ obs[r].outcome = "exhausted") =>
            /\ res[r] = [status |-> 200, body |-> ToJSON(FallbackResponse)]
            /\ obs[r].cacheWrite
            /\ ~loc[r].isCareerAnalysis

\* a request that arrives with the input of a request that exhausted the cap,
\* within the TTL, is answered from the cache with the response of that
\* request and calls nothing
LaterRequestServed ==
    [][\A r1, r2 \in Req :
          ( /\ r1 # r2
            /\ FallbackFresh(r1)
            /\ pc[r2] = "idle" /\ pc'[r2] # "idle"
            /\ inp'[r2] = inp[r1] )
          => ( /\ pc'[r2] = "done"
               /\ obs'[r2].outcome = "hit"
               /\ res'[r2] = res[r1]
               /\ obs'[r2].modelCalls = 0
               /\ obs'[r2].fetchCalls = 0 )]_vars

\* the same arrival is answered with what the cache holds under the key at
\* that time, and calls nothing
LaterRequestServedFromCache ==
    [][\A r1, r2 \in Req :
          ( /\ r1 # r2
            /\ FallbackFresh(r1)
            /\ pc[r2] = "idle" /\ pc'[r2] # "idle"
            /\ inp'[r2] = inp[r1] )
          => ( /\ pc'[r2] = "done"
               /\ obs'[r2].outcome = "hit"
               /\ res'[r2] = [status |-> 200,
                              body |-> ToJSON(cacheData[loc[r1].cacheKey].v)]
               /\ obs'[r2].modelCalls = 0
               /\ obs'[r2].fetchCalls = 0 )]_vars

\* C33, as claimed: when the cap is exhausted the fallback is returned with
\* status 200 and stored under the key of the request, and until the TTL has
\* passed the cache holds the fallback under that key, so that every later
\* identical request is served the fallback without a model call
C33_Original ==
    /\ [](ExhaustedStoresFallback)
    /\ [](\A r \in Req :
            FallbackFresh(r) =>
                /\ loc[r].cacheKey \in DOMAIN cacheData
                /\ cacheData[loc[r].cacheKey].v = FallbackResponse)
    /\ LaterRequestServed

\* C33, amended: when the cap is exhausted the fallback is returned with
\* status 200 and stored under the key of the request; until the TTL has
\* passed the cache holds under that key the fallback, or the response that a
\* request with the same key, in flight at the time, has stored since; a later
\* identical request is served what the cache holds, without a model call
C33_FallbackIsCached ==
    /\ [](ExhaustedStoresFallback)
    /\ [](\A r \in Req :
            FallbackFresh(r) =>
                /\ loc[r].cacheKey \in DOMAIN cacheData
                /\ \/ cacheData[loc[r].cacheKey].v = FallbackResponse
                   \/ \E r2 \in Req \ {r} :
                         /\ obs[r2].cacheWrite
                         /\ loc[r2].cacheKey = loc[r].cacheKey
                         /\ ToJSON(cacheData[loc[r].cacheKey].v) = res[r2].body)
    /\ LaterRequestServedFromCache

\* the second request was served the fallback the first one had stored
C33_Witness ==
    \E r1, r2 \in Req :
        /\ obs[r1].outcome = "exhausted" /\ obs[r1].cacheWrite
        /\ obs[r2].outcome = "hit"
        /\ res[r2] = [status |-> 200, body |-> ToJSON(FallbackResponse)]
        /\ obs[r2].modelCalls = 0


\* r went to the model, was answered 200 and stored what it sent under k
SentAndStored(r, k) ==
    /\ pc[r] = "done"
    /\ obs[r].outcome \in {"answered", "exhausted"}
    /\ res[r].status = 200
    /\ obs[r].cacheWrite
    /\ ~loc[r].isCareerAnalysis
    /\ loc[r].cacheKey = k

\* C34: every value the cache holds under a key k is what a request with
\* fingerprint k that missed and completed sent as its 200 response; a request
\* that ends with an error status, a career analysis request and a request
\* served from the cache store nothing
C34_StoredValuesWereSent ==
    /\ [](\A k \in DOMAIN cacheData :
            \E r \in Req : SentAndStored(r, k) /\ res[r].body = ToJSON(cacheData[k].v))
    /\ [][\A r \in Req :
            ( /\ pc[r] # "done" /\ pc'[r] = "done"
              /\ \/ res'[r].status # 200
                 \/ loc'[r].isCareerAnalysis
                 \/ obs'[r].outcome \in {"hit", "rejected"} )
            => cacheData' = cacheData]_vars

\* an entry is held under a key while another request with that key has ended
\* in the catch block
C34_Witness ==
    \E r1, r2 \in Req :
        /\ SentAndStored(r1, loc[r1].cacheKey)
        /\ loc[r1].cacheKey \in DOMAIN cacheData
        /\ pc[r2] = "done" /\ res[r2].status \in {429, 500, 503}
        /\ loc[r2].cacheKey = loc[r1].cacheKey
        /\ obs[r2].modelCalls > 0


\* how many responses request r has sent
Responses(r) == Cardinality({i \in 1..Len(obs[r].steps) : obs[r].steps[i] = "send"})

\* C35: a request to /api/chat that has ended has sent one response and one
\* only, whichever way it ended (rejected input, cache hit, answer, exhausted
\* cap, failed model call or tool call); a request still in flight has sent
\* none, and the response of a request that has ended is not replaced
C35_ExactlyOneResponse ==
    /\ [](\A r \in Req :
            /\ Responses(r) = IF pc[r] = "done" THEN 1 ELSE 0
            /\ pc[r] = "done" <=> res[r] # NoResponse
            /\ pc[r] = "done" =>
                  /\ obs[r].outcome \in {"rejected", "hit", "answered", "exhausted",
                                         "modelError", "normalizeError", "toolError"}
                  /\ obs[r].steps[Len(obs[r].steps)] = "send")
    /\ [][\A r \in Req : pc[r] = "done" => pc'[r] = "done" /\ res'[r] = res[r]]_vars

\* one request has ended with the cap exhausted, the other in the catch block
C35_Witness ==
    \E r1, r2 \in Req :
        /\ obs[r1].outcome = "exhausted" /\ res[r1].status = 200 /\ Responses(r1) = 1
        /\ obs[r2].outcome \in {"modelError", "toolError"} /\ res[r2].status >= 429
        /\ Responses(r2) = 1


\* C36: if every model call and every fetch returns or fails in the end, a
\* request that has entered the handler ends: a response is sent
C36_EveryRequestEnds ==
    \A r \in Req : (pc[r] # "idle") ~> (pc[r] = "done" /\ res[r] # NoResponse)

\* a request has ended after as many turns of function calls as the cap allows
C36_Witness ==
    \E r \in Req :
        /\ pc[r] = "done"
        /\ loc[r].functionCallAttempts = maxFunctionCalls
        /\ obs[r].modelCalls = maxFunctionCalls
        /\ res[r].status = 200


\* r is a career analysis request that has entered the handler
CareerRequest(r) == pc[r] # "idle" /\ loc[r].isCareerAnalysis

\* C37: a career analysis request that completes adds 1 to misses, on its
\* arrival, and none of its steps changes hits or saves; completed alone on a
\* server that has just started it leaves hits 0, misses 1, saves 0
C37_CareerCountsOneMiss ==
    /\ [][\A r \in Req :
            (pc'[r] # pc[r] /\ loc'[r].isCareerAnalysis) =>
                /\ cacheStats'.hits = cacheStats.hits
                /\ cacheStats'.saves = cacheStats.saves
                /\ cacheStats'.misses = cacheStats.misses + (IF pc[r] = "idle" THEN 1 ELSE 0)]_vars
    /\ [](\A r \in Req :
            (CareerRequest(r) /\ pc[r] = "done" /\ \A q \in Req \ {r} : pc[q] = "idle") =>
                cacheStats = [hits |-> 0, misses |-> 1, saves |-> 0])

\* two career analysis requests have completed, one answered and one failed
C37_Witness ==
    \E r1, r2 \in Req :
        /\ r1 # r2
        /\ CareerRequest(r1) /\ obs[r1].outcome = "answered"
        /\ CareerRequest(r2) /\ obs[r2].outcome = "modelError"
        /\ cacheStats = [hits |-> 0, misses |-> 2, saves |-> 0]


\* s holds a match of /javascript:/i or of /on\w+\s*=/i
HoldsPattern(s) ==
    \E i \in 1..Len(s) : MatchesAtNoCase(s, strJavascript, i) \/ EventHandlerEnd(s, i) > 0

\* s ends with a white space character
EndsWithSpace(s) == s # <<>> /\ IsSpace(s[Len(s)])

\* C38, as claimed: sanitizeInput(sanitizeInput(s)) = sanitizeInput(s): what
\* sanitizeInput returned is returned unchanged when it is sanitized again
C38_Original == san.redone => san.again = san.output

\* C38, amended: what sanitizeInput returned is returned unchanged when it is
\* sanitized again, unless it holds a javascript: or on...= pattern that the
\* removal of a match has put together or ends with white space that the cut to
\* 1000 characters has left; the second pass never returns a longer string
C38_SecondPassKeepsCleanOutput ==
    san.redone =>
        /\ (~HoldsPattern(san.output) /\ ~EndsWithSpace(san.output)) => san.again = san.output
        /\ Len(san.again) <= Len(san.output)

\* a string from which the first pass removed a match came back unchanged from
\* the second
C38_Witness ==
    /\ san.redone
    /\ san.input.t = "string"
    /\ HoldsPattern(san.input.s)
    /\ san.output # <<>>
    /\ ~HoldsPattern(san.output)
    /\ san.again = san.output


\* the angle bracket characters
AngleBrackets == {"<", ">"}

\* C39: whatever the input, what sanitizeInput returns holds no < and no >,
\* on a first call and on a call with a string it returned
C39_NoAngleBrackets ==
    /\ san.done => \A i \in 1..Len(san.output) : san.output[i] \notin AngleBrackets
    /\ san.redone => \A i \in 1..Len(san.again) : san.again[i] \notin AngleBrackets

\* a string with both brackets was sanitized to a string that is not empty
C39_Witness ==
    /\ san.done
    /\ san.input.t = "string"
    /\ \E i, j \in 1..Len(san.input.s) : san.input.s[i] = "<" /\ san.input.s[j] = ">"
    /\ san.output # <<>>
    /\ Len(san.output) < Len(san.input.s)

====
